---- MODULE Spec2Model ----
(***************************************************************************)
(* A model of the Creative AI Loop repository: the rule-based and the      *)
(* provider-backed mode classifier (ModeInference.ts), the dynamic agent   *)
(* factory and its store (DynamicAgentFactory.ts), the provider client's   *)
(* interaction bookkeeping (OpenAIService.ts), the memory store            *)
(* (MemoryService.ts), the output writer (FileService.ts) and the          *)
(* orchestrator's run (CreativeAILoop.ts).                                 *)
(*                                                                         *)
(* Text is modelled at the level of characters: a text is a sequence of    *)
(* one-character strings, and the string functions of the code (lower-     *)
(* casing, trimming, splitting, regular-expression tests, substring        *)
(* search) are computed on those sequences.  Identifiers that the code     *)
(* builds with template literals are built here with \o on strings.        *)
(***************************************************************************)
EXTENDS Integers, Sequences, FiniteSets, TLC

VARIABLES
    \* ---- mode inference (one classification) ----
    mTask,          \* the task text handed to the classifier
    mResponse,      \* what the provider call ended in (NoResponse before the call)
    mResult,        \* what inferModeWithAI ended in: "none", "error" or a mode
    mQuick          \* what quickInferMode returned for mTask: "none" or a mode

modeVars == <<mTask, mResponse, mResult, mQuick>>

VARIABLES
    \* ---- the provider client's interaction bookkeeping ----
    expertInteractions,  \* the client's list of ExpertInteraction records
    trackLog,            \* history: the interactions passed to trackExpertInteraction, in call order
    snapshot             \* the list the last getExpertInteractions call returned

trackVars == <<expertInteractions, trackLog, snapshot>>

VARIABLES
    \* ---- the dynamic agent factory ----
    dynamic_agents, \* the dynamic_agents table: id -> row
    agentCache,     \* the factory's agentCache map: key -> agent
    now,            \* Date.now()
    fLast,          \* history: the last factory call and what it ended in
    createdFor,     \* history: id of a row this instance's createAgent inserted
                    \*          -> the identity asked for
    persistedFor    \* history: id of a row any instance's createAgent inserted
                    \*          -> the identity asked for

factoryVars == <<dynamic_agents, agentCache, now, fLast, createdFor, persistedFor>>

VARIABLES
    \* ---- the memory store ----
    memories,       \* the memories table, in insertion order (the index is the row id)
    sessionMemory,  \* the service's session list
    seconds,        \* the clock of CURRENT_TIMESTAMP, in whole seconds
    memLast         \* history: the last memory call and what it ended in

memoryVars == <<memories, sessionMemory, seconds, memLast>>

VARIABLES
    \* ---- the output writer ----
    outputDir,      \* whether the output/ directory exists
    outputFiles,    \* the files under output/: a set of [name, content]
    save            \* the saveOutput call: where it stands, its arguments and its result

fileVars == <<outputDir, outputFiles, save>>

VARIABLES
    \* ---- the orchestrator's run ----
    runPc,          \* the step the run stands at
    runCtx,         \* the run's locals
    runPending,     \* the operations the run has started and not seen the end of
    runTrace,       \* history: the operations the run has started, in order
    runStart,       \* history: what was persisted when the run started
    runsDone        \* history: the runs started so far

runVars == <<runPc, runCtx, runPending, runTrace, runStart, runsDone>>

VARIABLES
    \* ---- the expert registry ----
    prompt          \* history: the last generateRoundPrompt call and what it gave

promptVars == <<prompt>>

VARIABLES
    \* ---- the round planner ----
    baseRoundsByMode,   \* the shared round table: mode -> rounds
    plan                \* history: the last planRounds call and what it gave

planVars == <<baseRoundsByMode, plan>>

VARIABLES
    \* ---- the expert registry with dynamic experts ----
    dynamicExperts, \* the registry's dynamicExperts map: key -> expert
    selection       \* history: the last selection call and what it gave

selectVars == <<dynamicExperts, selection>>

vars == <<modeVars, trackVars, factoryVars, memoryVars, fileVars, runVars, promptVars,
          planVars, selectVars>>

-----------------------------------------------------------------------------
(* Text helpers.                                                           *)

UpperLetters == <<"A", "B", "C", "D", "E", "F", "G", "H", "I", "J", "K", "L", "M",
                  "N", "O", "P", "Q", "R", "S", "T", "U", "V", "W", "X", "Y", "Z">>

LowerLetters == <<"a", "b", "c", "d", "e", "f", "g", "h", "i", "j", "k", "l", "m",
                  "n", "o", "p", "q", "r", "s", "t", "u", "v", "w", "x", "y", "z">>

Digits == {"0", "1", "2", "3", "4", "5", "6", "7", "8", "9"}

Range(s) == {s[i] : i \in DOMAIN s}

SeqsUpTo(S, n) == UNION {[1..k -> S] : k \in 0..n}

\* The characters of a string, as a sequence of one-character strings.
Chars(string) == [i \in 1..Len(string) |-> SubSeq(string, i, i)]

RECURSIVE Flatten(_)
\* The concatenation of a sequence of texts.
Flatten(ss) == IF ss = <<>> THEN <<>> ELSE Head(ss) \o Flatten(Tail(ss))

\* Lower-casing of the ASCII letters only, every other character kept.
AsciiLowerChar(c) ==
    IF \E i \in DOMAIN UpperLetters : UpperLetters[i] = c
    THEN LowerLetters[CHOOSE i \in DOMAIN UpperLetters : UpperLetters[i] = c]
    ELSE c

\* String.prototype.toLowerCase on one character: the ASCII letters, and the
\* one letter outside ASCII that the texts of this model use.
ToLowerChar(c) == IF c = "É" THEN "é" ELSE AsciiLowerChar(c)

toLowerCase(s) == [i \in DOMAIN s |-> ToLowerChar(s[i])]

\* The regular expression class \w, and \s.
IsWordChar(c) == c \in Range(LowerLetters) \cup Range(UpperLetters) \cup Digits \cup {"_"}

IsWhitespace(c) == c \in {" ", "\t", "\n", "\r"}

\* text contains word at position i
OccursAt(text, word, i) ==
    /\ i >= 1
    /\ i + Len(word) - 1 <= Len(text)
    /\ \A j \in 1..Len(word) : text[i + j - 1] = word[j]

\* String.prototype.includes / SQL LIKE '%word%' on already case-folded texts
Includes(text, word) == \E i \in 1..(Len(text) + 1) : OccursAt(text, word, i)

\* /\b(k1|k2|...)\b/.test(text), every k a non-empty run of word characters:
\* \b holds before the match when it starts the text or follows a non-word
\* character, and after it when it ends the text or precedes a non-word one.
TestWordBounded(text, keywords) ==
    \E k \in keywords : \E i \in 1..Len(text) :
        /\ OccursAt(text, k, i)
        /\ (i = 1 \/ ~IsWordChar(text[i - 1]))
        /\ (i + Len(k) - 1 = Len(text) \/ ~IsWordChar(text[i + Len(k)]))

-----------------------------------------------------------------------------
(* Interaction bookkeeping of the provider client: OpenAIService.ts.       *)

\* An optional value (responseId?: string): <<>> when undefined, <<v>> when v.
Undefined == <<>>

\* if (interaction.responseId): undefined and the empty string are falsy
IsTruthy(opt) == opt # Undefined /\ opt[1] # ""

\* expertInteractions.find(i => i.expertName === ... && i.round === ...):
\* the index of the first record of the pair, 0 when there is none
FindInteraction(list, expertName, round) ==
    IF \E i \in DOMAIN list : list[i].expertName = expertName /\ list[i].round = round
    THEN CHOOSE i \in DOMAIN list :
            /\ list[i].expertName = expertName /\ list[i].round = round
            /\ \A j \in 1..(i - 1) : ~(list[j].expertName = expertName /\ list[j].round = round)
    ELSE 0

\* Mutant: the existing record looked up by expert name alone.
trackExpertInteraction_ByName(list, interaction) ==
    LET i == IF \E k \in DOMAIN list : list[k].expertName = interaction.expertName
             THEN CHOOSE k \in DOMAIN list : list[k].expertName = interaction.expertName
             ELSE 0
    IN  IF i # 0
        THEN [list EXCEPT ![i] =
                [@ EXCEPT !.callCount = @ + interaction.callCount,
                          !.insights = @ \o interaction.insights,
                          !.responseId = IF IsTruthy(interaction.responseId)
                                         THEN interaction.responseId ELSE @]]
        ELSE Append(list, interaction)

\* Mutant: an update overwrites the call count instead of adding to it.
trackExpertInteraction_Overwrite(list, interaction) ==
    LET i == FindInteraction(list, interaction.expertName, interaction.round)
    IN  IF i # 0
        THEN [list EXCEPT ![i] =
                [@ EXCEPT !.callCount = interaction.callCount,
                          !.insights = @ \o interaction.insights,
                          !.responseId = IF IsTruthy(interaction.responseId)
                                         THEN interaction.responseId ELSE @]]
        ELSE Append(list, interaction)

\* The list after trackExpertInteraction(interaction).
trackExpertInteraction(list, interaction) ==
    LET i == FindInteraction(list, interaction.expertName, interaction.round)
    IN  IF i # 0
        THEN [list EXCEPT ![i] =
                [@ EXCEPT !.callCount = @ + interaction.callCount,
                          !.insights = @ \o interaction.insights,
                          !.responseId = IF IsTruthy(interaction.responseId)
                                         THEN interaction.responseId ELSE @]]
        ELSE Append(list, interaction)

\* ---- inputs of the bookkeeping ----
MaxTrackCalls == 3

TrackedExperts == {"DesignPhilosopher", "User"}

TrackedRounds == {"emotional_resonance", "technical_bridge"}

TrackedInteractions ==
    [expertName : TrackedExperts, round : TrackedRounds, callCount : {1, 2},
     insights : {<<"insight a">>, <<"insight b">>},
     responseId : {Undefined, <<"resp_1">>, <<"resp_2">>}]

\* getExpertInteractions: [...expertInteractions], a new array that holds
\* the client's record objects themselves.  The records of the client's list
\* are never removed or moved, so a record object is named by its index in
\* expertInteractions; atReturn is the list's content when it was returned.
getExpertInteractions(list) ==
    [taken |-> TRUE, records |-> [i \in DOMAIN list |-> i], atReturn |-> list]

\* What a holder of the returned list reads in it now.
Content(returned) ==
    [i \in DOMAIN returned.records |-> expertInteractions[returned.records[i]]]

NoSnapshot == [taken |-> FALSE, records |-> <<>>, atReturn |-> <<>>]

TrackInit ==
    /\ expertInteractions = <<>>
    /\ trackLog = <<>>
    /\ snapshot = NoSnapshot

\* One trackExpertInteraction call.
TrackExpertInteraction ==
    /\ Len(trackLog) < MaxTrackCalls
    /\ \E interaction \in TrackedInteractions :
          /\ expertInteractions' = trackExpertInteraction(expertInteractions, interaction)
          /\ trackLog' = Append(trackLog, interaction)
    /\ UNCHANGED snapshot
    /\ UNCHANGED <<modeVars, factoryVars, memoryVars, fileVars, runVars, promptVars, planVars, selectVars>>

\* One getExpertInteractions call.
GetExpertInteractions ==
    /\ snapshot' = getExpertInteractions(expertInteractions)
    /\ UNCHANGED <<expertInteractions, trackLog>>
    /\ UNCHANGED <<modeVars, factoryVars, memoryVars, fileVars, runVars, promptVars, planVars, selectVars>>

-----------------------------------------------------------------------------
(* Mode inference: ModeInference.ts.                                       *)

Modes == {"pr", "design_review", "explore"}

ModeText(m) ==
    CASE m = "pr" -> <<"p", "r">>
      [] m = "design_review" -> <<"d", "e", "s", "i", "g", "n", "_", "r", "e", "v", "i", "e", "w">>
      [] m = "explore" -> <<"e", "x", "p", "l", "o", "r", "e">>

ExploreKeywords ==
    { <<"e", "x", "p", "l", "o", "r", "e">>,
      <<"b", "r", "a", "i", "n", "s", "t", "o", "r", "m">>,
      <<"c", "o", "n", "c", "e", "p", "t">>,
      <<"h", "i", "s", "t", "o", "r", "y">>,
      <<"a", "e", "s", "t", "h", "e", "t", "i", "c">>,
      <<"t", "h", "e", "m", "e">>,
      <<"s", "t", "o", "r", "y">>,
      <<"c", "r", "e", "a", "t", "i", "v", "e">>,
      <<"i", "n", "n", "o", "v", "a", "t", "i", "v", "e">>,
      <<"v", "i", "s", "i", "o", "n">> }

DesignReviewKeywords ==
    { <<"r", "e", "v", "i", "e", "w">>,
      <<"a", "u", "d", "i", "t">>,
      <<"c", "o", "n", "s", "i", "s", "t", "e", "n", "c", "y">>,
      <<"r", "e", "f", "a", "c", "t", "o", "r">>,
      <<"c", "h", "e", "c", "k">>,
      <<"v", "a", "l", "i", "d", "a", "t", "e">>,
      <<"i", "m", "p", "r", "o", "v", "e">>,
      <<"o", "p", "t", "i", "m", "i", "z", "e">>,
      <<"a", "n", "a", "l", "y", "z", "e">> }

\* Mutant: the explore test made after the design_review test.
quickInferMode_ReviewFirst(task) ==
    LET t == toLowerCase(task)
    IN  IF TestWordBounded(t, DesignReviewKeywords) THEN "design_review"
        ELSE IF TestWordBounded(t, ExploreKeywords) THEN "explore"
        ELSE "pr"

quickInferMode(task) ==
    LET t == toLowerCase(task)
    IN  IF TestWordBounded(t, ExploreKeywords) THEN "explore"
        ELSE IF TestWordBounded(t, DesignReviewKeywords) THEN "design_review"
        ELSE "pr"

\* What a generateResponse call ends in: a failure of the effect, or a reply
\* whose content is a non-empty text (an empty content is reported as a failure).
ProviderFailure == [ok |-> FALSE, content |-> <<>>]

ProviderReply(content) == [ok |-> TRUE, content |-> content]

RECURSIVE TrimStart(_)
TrimStart(s) == IF s # <<>> /\ IsWhitespace(Head(s)) THEN TrimStart(Tail(s)) ELSE s

RECURSIVE TrimEnd(_)
TrimEnd(s) ==
    IF s # <<>> /\ IsWhitespace(s[Len(s)]) THEN TrimEnd(SubSeq(s, 1, Len(s) - 1)) ELSE s

\* String.prototype.trim
trim(s) == TrimEnd(TrimStart(s))

IsQuote(c) == c \in {"'", "\""}

\* response.content.trim().toLowerCase().replace(/['"]/g, '')
NormalizeReply(content) == SelectSeq(toLowerCase(trim(content)), LAMBDA c : ~IsQuote(c))

\* Mutant: the reply compared as it came, without trim/toLowerCase/replace.
inferModeWithAI_Raw(task, response) ==
    IF ~response.ok THEN "error"
    ELSE IF \E m \in Modes : response.content = ModeText(m)
         THEN CHOOSE m \in Modes : response.content = ModeText(m)
         ELSE quickInferMode(task)

\* inferModeWithAI as an Effect.gen generator: a failure of the yielded
\* generateResponse effect ends the generator with that failure (the fiber never
\* resumes it, so the try/catch around the yield* does not see it); "error" is
\* that outcome.  The catch clause guards only the synchronous string handling,
\* which cannot throw on a string content.
inferModeWithAI(task, response) ==
    IF ~response.ok THEN "error"
    ELSE LET mode == NormalizeReply(response.content)
         IN  IF \E m \in Modes : mode = ModeText(m)
             THEN CHOOSE m \in Modes : mode = ModeText(m)
             ELSE quickInferMode(task)

\* ---- inputs of the classifier ----
MaxTaskFragments == 3

MaxReplyFragments == 2

TaskFragments ==
    { <<"e", "x", "p", "l", "o", "r", "e">>,
      <<"V", "i", "s", "i", "o", "n">>,
      <<"r", "e", "v", "i", "e", "w">>,
      <<"s">>, <<"_">>, <<" ">> }

ReplyFragments ==
    { <<"p", "r">>,
      <<"E", "x", "p", "l", "o", "r", "e">>,
      <<"d", "e", "s", "i", "g", "n", "_", "r", "e", "v", "i", "e", "w">>,
      <<" ">>, <<"\"">>, <<"x">> }

TaskTexts == {Flatten(fs) : fs \in SeqsUpTo(TaskFragments, MaxTaskFragments)}

ReplyTexts == {Flatten(fs) : fs \in SeqsUpTo(ReplyFragments, MaxReplyFragments)} \ {<<>>}

ProviderOutcomes == {ProviderFailure} \cup {ProviderReply(c) : c \in ReplyTexts}

NoResponse == [ok |-> FALSE, content |-> <<"?">>]

ModeInit ==
    /\ mTask \in TaskTexts
    /\ mResponse = NoResponse
    /\ mResult = "none"
    /\ mQuick = "none"

\* The classifier not in use.
ModeIdle ==
    /\ mTask = <<>>
    /\ mResponse = NoResponse
    /\ mResult = "none"
    /\ mQuick = "none"

\* The rule-based fallback applied to the task.
QuickInferMode ==
    /\ mQuick = "none"
    /\ mQuick' = quickInferMode(mTask)
    /\ UNCHANGED <<mTask, mResponse, mResult>>
    /\ UNCHANGED <<trackVars, factoryVars, memoryVars, fileVars, runVars, promptVars, planVars, selectVars>>

\* One inferModeWithAI call, the provider call inside it ending in `response`.
InferModeWithAI ==
    /\ mResult = "none"
    /\ \E response \in ProviderOutcomes :
          /\ mResponse' = response
          /\ mResult' = inferModeWithAI(mTask, response)
    /\ UNCHANGED <<mTask, mQuick>>
    /\ UNCHANGED <<trackVars, factoryVars, memoryVars, fileVars, runVars, promptVars, planVars, selectVars>>

-----------------------------------------------------------------------------
(* The dynamic agent factory and its store: DynamicAgentFactory.ts.        *)

RECURSIVE Str(_)
\* A text as a string (what a template literal or join yields).
Str(text) == IF text = <<>> THEN "" ELSE Head(text) \o Str(Tail(text))

\* The UTF-16 code unit of a character of the texts used here.
CharCode(c) ==
    IF \E i \in DOMAIN LowerLetters : LowerLetters[i] = c
    THEN 96 + (CHOOSE i \in DOMAIN LowerLetters : LowerLetters[i] = c)
    ELSE IF \E i \in DOMAIN UpperLetters : UpperLetters[i] = c
    THEN 64 + (CHOOSE i \in DOMAIN UpperLetters : UpperLetters[i] = c)
    ELSE CASE c = " " -> 32 [] c = "-" -> 45 [] c = "_" -> 95 [] OTHER -> 0

RECURSIVE TextLess(_, _)
\* s < t as Array.prototype.sort compares strings by default: by code units.
TextLess(s, t) ==
    IF t = <<>> THEN FALSE
    ELSE IF s = <<>> THEN TRUE
    ELSE IF CharCode(Head(s)) # CharCode(Head(t)) THEN CharCode(Head(s)) < CharCode(Head(t))
    ELSE TextLess(Tail(s), Tail(t))

RECURSIVE InsertSorted(_, _)
InsertSorted(sorted, x) ==
    IF sorted = <<>> THEN <<x>>
    ELSE IF TextLess(x, Head(sorted)) THEN <<x>> \o sorted
    ELSE <<Head(sorted)>> \o InsertSorted(Tail(sorted), x)

RECURSIVE SortTexts(_)
\* missingCapabilities.sort()
SortTexts(texts) ==
    IF texts = <<>> THEN <<>>
    ELSE InsertSorted(SortTexts(SubSeq(texts, 1, Len(texts) - 1)), texts[Len(texts)])

RECURSIVE JoinTexts(_, _)
\* array.join(separator), as a string
JoinTexts(texts, separator) ==
    IF texts = <<>> THEN ""
    ELSE IF Len(texts) = 1 THEN Str(texts[1])
    ELSE Str(texts[1]) \o separator \o JoinTexts(Tail(texts), separator)

\* Mutant: the key built from the capabilities in the order given.
cacheKey_Unsorted(domain, missingCapabilities) ==
    Str(domain) \o "-" \o JoinTexts(missingCapabilities, "-")

\* `${domain}-${missingCapabilities.sort().join("-")}`
cacheKey(domain, missingCapabilities) ==
    Str(domain) \o "-" \o JoinTexts(SortTexts(missingCapabilities), "-")

RECURSIVE CollapseWhitespace(_)
\* name.replace(/\s+/g, "_")
CollapseWhitespace(text) ==
    IF text = <<>> THEN <<>>
    ELSE IF IsWhitespace(Head(text))
         THEN <<"_">> \o CollapseWhitespace(TrimStart(text))
         ELSE <<Head(text)>> \o CollapseWhitespace(Tail(text))

\* `${name.toLowerCase().replace(/\s+/g, "_")}_${Date.now()}`
generateAgentId(name, time) ==
    Str(CollapseWhitespace(toLowerCase(name))) \o "_" \o ToString(time)

\* `${agent.id}-v${Date.now()}`
EvolvedId(id, time) == id \o "-v" \o ToString(time)

RECURSIVE GCD(_, _)
GCD(a, b) == IF b = 0 THEN a ELSE GCD(b, a % b)

\* A success rate is a fraction <<numerator, denominator>> in lowest terms
\* (the REAL column, without the rounding of floating point).
Fraction(n, d) == LET g == GCD(n, d) IN <<n \div g, d \div g>>

ZeroRate == Fraction(0, 1)

\* The row INSERTed by storeAgent: usage_count DEFAULT 0, success_rate DEFAULT 0.0.
NewRow(agent) ==
    [name |-> agent.name, domain |-> agent.domain, prompt |-> agent.prompt,
     usage_count |-> 0, success_rate |-> ZeroRate]

\* UPDATE dynamic_agents SET usage_count = usage_count + 1 WHERE id = ?
incrementUsage(rows, agentId) ==
    IF agentId \in DOMAIN rows
    THEN [rows EXCEPT ![agentId].usage_count = @ + 1]
    ELSE rows

\* Mutant: the new rate divided by the old usage count (the mean taken over
\* the uses before this one).
updateSuccessRate_OldCount(rows, agentId, success) ==
    IF agentId \in DOMAIN rows
    THEN LET n == rows[agentId].usage_count
             r == rows[agentId].success_rate
             s == IF success THEN 1 ELSE 0
         IN  [rows EXCEPT
                ![agentId].success_rate =
                    IF n = 0 THEN Fraction(s, 1)
                    ELSE Fraction(r[1] * n + s * r[2], r[2] * n),
                ![agentId].usage_count = @ + 1]
    ELSE rows

\* Mutant: the outcome added to the rate, with no division by the uses.
updateSuccessRate_Added(rows, agentId, success) ==
    IF agentId \in DOMAIN rows
    THEN LET r == rows[agentId].success_rate
             s == IF success THEN 1 ELSE 0
         IN  [rows EXCEPT
                ![agentId].success_rate = Fraction(r[1] + s * r[2], r[2]),
                ![agentId].usage_count = @ + 1]
    ELSE rows

\* updateSuccessRate: newSuccessRate =
\*   (success_rate * usage_count + (success ? 1 : 0)) / (usage_count + 1),
\* written with usage_count + 1, when the row exists.
updateSuccessRate(rows, agentId, success) ==
    IF agentId \in DOMAIN rows
    THEN LET n == rows[agentId].usage_count
             r == rows[agentId].success_rate
             s == IF success THEN 1 ELSE 0
         IN  [rows EXCEPT
                ![agentId].success_rate = Fraction(r[1] * n + s * r[2], r[2] * (n + 1)),
                ![agentId].usage_count = @ + 1]
    ELSE rows

\* The agent object built from a row (loadCachedAgents, findAgentsByDomain).
AgentOfRow(id, row) ==
    [id |-> id, name |-> row.name, domain |-> row.domain, prompt |-> row.prompt]

\* LIMIT 100 of loadCachedAgents
CacheLoadLimit == 100

\* SELECT * FROM dynamic_agents ORDER BY usage_count DESC LIMIT 100: the sets
\* of ids the query may return (rows of equal usage_count come in any order).
TopByUsage(rows) ==
    {S \in SUBSET DOMAIN rows :
        /\ Cardinality(S) = (IF Cardinality(DOMAIN rows) < CacheLoadLimit
                             THEN Cardinality(DOMAIN rows) ELSE CacheLoadLimit)
        /\ \A i \in S, o \in DOMAIN rows \ S : rows[i].usage_count >= rows[o].usage_count}

\* ---- bounds and inputs of the factory ----
MaxAgents == 2

\* The uses counted over the store's life.
MaxUsage == 4

MaxClock == 2

MaxCapabilities == 2

FactoryDomains == {<<"u", "x">>}

FactoryCapabilities ==
    <<(<<"d", "a", "t", "a">>), (<<"v", "i", "z">>), (<<"a", "p", "i">>)>>

\* The capability lists a caller may pass: the orderings of every set of up to
\* MaxCapabilities of the first MaxCapabilities capabilities.
CapabilityLists ==
    {caps \in SeqsUpTo({FactoryCapabilities[i] :
                           i \in {j \in DOMAIN FactoryCapabilities : j <= MaxCapabilities}},
                       MaxCapabilities) :
        \A i, j \in DOMAIN caps : i # j => caps[i] # caps[j]}

\* The name the provider gives a generated agent.
GeneratedNames == {<<"V", "i", "z", " ", "P", "r", "o">>}

UnknownAgentId == "nobody_0"

EmptyMap == [k \in {} |-> 0]

NoFactoryCall ==
    [op |-> "none", outcome |-> "", key |-> "", agentId |-> "", returned |-> "",
     success |-> FALSE, usageBefore |-> 0, rateBefore |-> ZeroRate,
     rowsBefore |-> EmptyMap, cacheBefore |-> EmptyMap]

RECURSIVE SumUsage(_, _)
SumUsage(rows, ids) ==
    IF ids = {} THEN 0
    ELSE LET id == CHOOSE i \in ids : TRUE
         IN  rows[id].usage_count + SumUsage(rows, ids \ {id})

\* The uses the store has counted, over all its rows.
TotalUsage == SumUsage(dynamic_agents, DOMAIN dynamic_agents)

FactoryInit ==
    /\ dynamic_agents = EmptyMap
    /\ agentCache = EmptyMap
    /\ now = 1
    /\ fLast = NoFactoryCall
    /\ createdFor = EmptyMap
    /\ persistedFor = EmptyMap

\* The identity of a request as the data model defines it: the domain, then the
\* capabilities in sorted order, joined with "-".
IdentityOf(domain, capabilitySet) ==
    LET n == Cardinality(capabilitySet)
        sorted == CHOOSE seq \in [1..n -> capabilitySet] :
                    /\ Range(seq) = capabilitySet
                    /\ \A i, j \in 1..n : i < j => TextLess(seq[i], seq[j])
    IN  Str(domain) \o "-" \o JoinTexts(sorted, "-")

\* The time of Date.now() passes.
Tick ==
    /\ now < MaxClock
    /\ now' = now + 1
    /\ UNCHANGED <<dynamic_agents, agentCache, fLast, createdFor, persistedFor>>
    /\ UNCHANGED <<modeVars, trackVars, memoryVars, fileVars, runVars, promptVars, planVars, selectVars>>

\* The specifications generateAgentSpec may return for a domain: the fallback
\* when the provider's reply does not parse, else the parsed reply with its
\* prompt enhanced.
AgentSpecs(domain) ==
    {[name |-> domain \o <<"S", "p", "e", "c", "i", "a", "l", "i", "s", "t">>,
      domain |-> domain, prompt |-> "fallback"]}
    \cup [name : GeneratedNames, domain : {domain}, prompt : {"enhanced"}]

\* One createAgent(taskContext, domain, missingCapabilities) call.  On a miss
\* the provider is asked for a specification (generateAgentSpec): the call
\* fails when that request or the enhanceSystemPrompt request fails, and
\* storeAgent throws when the generated id is already a row's primary key.
\* fLast.key is the identity asked for, fLast.returned the id of the agent the
\* call returns.
createAgent(domain, missingCapabilities) ==
    LET key == cacheKey(domain, missingCapabilities)
        failed == [NoFactoryCall EXCEPT !.op = "createAgent"]
        call == [failed EXCEPT !.key = IdentityOf(domain, Range(missingCapabilities))]
    IN
    /\ IF key \in DOMAIN agentCache
       THEN LET cached == agentCache[key]
            IN  /\ TotalUsage < MaxUsage
                /\ dynamic_agents' = incrementUsage(dynamic_agents, cached.id)
                /\ fLast' = [call EXCEPT
                      !.outcome = "hit", !.returned = cached.id,
                      !.usageBefore = IF cached.id \in DOMAIN dynamic_agents
                                      THEN dynamic_agents[cached.id].usage_count ELSE 0]
                /\ UNCHANGED <<agentCache, createdFor, persistedFor>>
       ELSE \/ /\ fLast' = [failed EXCEPT !.outcome = "provider failed"]
               /\ UNCHANGED <<dynamic_agents, agentCache, createdFor, persistedFor>>
            \/ \E spec \in AgentSpecs(domain) :
                 LET agent == [id |-> generateAgentId(spec.name, now),
                               name |-> Str(spec.name), domain |-> Str(spec.domain),
                               prompt |-> spec.prompt]
                 IN  IF agent.id \in DOMAIN dynamic_agents
                     THEN /\ fLast' = [failed EXCEPT !.outcome = "store failed"]
                          /\ UNCHANGED <<dynamic_agents, agentCache, createdFor, persistedFor>>
                     ELSE /\ Cardinality(DOMAIN dynamic_agents) < MaxAgents
                          /\ dynamic_agents' = (agent.id :> NewRow(agent)) @@ dynamic_agents
                          /\ agentCache' = (agent.id :> agent) @@ (key :> agent) @@ agentCache
                          /\ fLast' = [call EXCEPT !.outcome = "created",
                                                   !.returned = agent.id]
                          /\ createdFor' = (agent.id :> call.key) @@ createdFor
                          /\ persistedFor' = (agent.id :> call.key) @@ persistedFor
    /\ UNCHANGED now
    /\ UNCHANGED <<modeVars, trackVars, memoryVars, fileVars, runVars, promptVars, planVars, selectVars>>

CreateAgent ==
    \E domain \in FactoryDomains, caps \in CapabilityLists : createAgent(domain, caps)

\* The values of evolveAgent's feedback.improvements together with what the
\* improveAgentPrompt request ends in when they are supplied.
Improvements == {"no improvements", "improved", "provider failed"}

\* Mutant: an id that is not found makes the factory reload its cache from
\* the store.
evolveAgent_Reloading(agentId, success, improve) ==
    LET failed == [NoFactoryCall EXCEPT !.op = "evolveAgent", !.agentId = agentId]
        call == [failed EXCEPT
                    !.success = success,
                    !.usageBefore = IF agentId \in DOMAIN dynamic_agents
                                    THEN dynamic_agents[agentId].usage_count ELSE 0,
                    !.rateBefore = IF agentId \in DOMAIN dynamic_agents
                                   THEN dynamic_agents[agentId].success_rate ELSE ZeroRate]
    IN
    /\ IF agentId \notin DOMAIN agentCache
       THEN /\ fLast' = [failed EXCEPT !.outcome = "not found",
                                       !.rowsBefore = dynamic_agents,
                                       !.cacheBefore = agentCache]
            /\ agentCache' = [id \in DOMAIN dynamic_agents |->
                                 AgentOfRow(id, dynamic_agents[id])]
            /\ UNCHANGED dynamic_agents
       ELSE LET agent == agentCache[agentId]
                updated == updateSuccessRate(dynamic_agents, agentId, success)
                evolved == [agent EXCEPT !.id = EvolvedId(agent.id, now),
                                         !.prompt = "improved"]
            IN  /\ TotalUsage < MaxUsage
                /\ CASE improve = "no improvements" ->
                          /\ dynamic_agents' = updated
                          /\ fLast' = [call EXCEPT !.outcome = "unchanged agent",
                                                   !.returned = agent.id]
                          /\ UNCHANGED agentCache
                     [] improve = "provider failed" ->
                          /\ dynamic_agents' = updated
                          /\ fLast' = [call EXCEPT !.outcome = "provider failed"]
                          /\ UNCHANGED agentCache
                     [] improve = "improved" ->
                          IF evolved.id \in DOMAIN updated
                          THEN /\ dynamic_agents' = updated
                               /\ fLast' = [call EXCEPT !.outcome = "store failed"]
                               /\ UNCHANGED agentCache
                          ELSE /\ Cardinality(DOMAIN dynamic_agents) < MaxAgents
                               /\ dynamic_agents' = (evolved.id :> NewRow(evolved)) @@ updated
                               /\ agentCache' = (evolved.id :> evolved) @@ agentCache
                               /\ fLast' = [call EXCEPT !.outcome = "evolved agent",
                                                        !.returned = evolved.id]
    /\ UNCHANGED <<now, createdFor, persistedFor>>
    /\ UNCHANGED <<modeVars, trackVars, memoryVars, fileVars, runVars, promptVars, planVars, selectVars>>

\* One evolveAgent(agentId, {success, improvements}) call.  fLast holds the
\* arguments, the row's usage_count and success_rate before the call, and the
\* id of the agent the call returns.
evolveAgent(agentId, success, improve) ==
    LET failed == [NoFactoryCall EXCEPT !.op = "evolveAgent", !.agentId = agentId]
        call == [failed EXCEPT
                    !.success = success,
                    !.usageBefore = IF agentId \in DOMAIN dynamic_agents
                                    THEN dynamic_agents[agentId].usage_count ELSE 0,
                    !.rateBefore = IF agentId \in DOMAIN dynamic_agents
                                   THEN dynamic_agents[agentId].success_rate ELSE ZeroRate]
    IN
    /\ IF agentId \notin DOMAIN agentCache
       THEN /\ fLast' = [failed EXCEPT !.outcome = "not found",
                                       !.rowsBefore = dynamic_agents,
                                       !.cacheBefore = agentCache]
            /\ UNCHANGED <<dynamic_agents, agentCache>>
       ELSE LET agent == agentCache[agentId]
                updated == updateSuccessRate(dynamic_agents, agentId, success)
                evolved == [agent EXCEPT !.id = EvolvedId(agent.id, now),
                                         !.prompt = "improved"]
            IN  /\ TotalUsage < MaxUsage
                /\ CASE improve = "no improvements" ->
                          /\ dynamic_agents' = updated
                          /\ fLast' = [call EXCEPT !.outcome = "unchanged agent",
                                                   !.returned = agent.id]
                          /\ UNCHANGED agentCache
                     [] improve = "provider failed" ->
                          /\ dynamic_agents' = updated
                          /\ fLast' = [call EXCEPT !.outcome = "provider failed"]
                          /\ UNCHANGED agentCache
                     [] improve = "improved" ->
                          IF evolved.id \in DOMAIN updated
                          THEN /\ dynamic_agents' = updated
                               /\ fLast' = [call EXCEPT !.outcome = "store failed"]
                               /\ UNCHANGED agentCache
                          ELSE /\ Cardinality(DOMAIN dynamic_agents) < MaxAgents
                               /\ dynamic_agents' = (evolved.id :> NewRow(evolved)) @@ updated
                               /\ agentCache' = (evolved.id :> evolved) @@ agentCache
                               /\ fLast' = [call EXCEPT !.outcome = "evolved agent",
                                                        !.returned = evolved.id]
    /\ UNCHANGED <<now, createdFor, persistedFor>>
    /\ UNCHANGED <<modeVars, trackVars, memoryVars, fileVars, runVars, promptVars, planVars, selectVars>>

\* evaluateAndEvolve passes expert.dynamicAgent.id, the id of an agent that
\* createAgent returned; an id of no agent stands for every other argument.
EvolveAgent ==
    \E agentId \in DOMAIN dynamic_agents \cup {UnknownAgentId}, success \in BOOLEAN,
       improve \in Improvements :
          evolveAgent(agentId, success, improve)

\* success_rate comparison of two rows, the rates being fractions.
RateLess(r1, r2) == r1[1] * r2[2] < r2[1] * r1[2]

\* SELECT * FROM dynamic_agents WHERE domain = ? ORDER BY success_rate DESC,
\* usage_count DESC LIMIT 5, of which existing[0] is used: the ids the first
\* row may have (rows equal in both columns come in any order).
findAgentsByDomain(rows, domain) ==
    LET matching == {id \in DOMAIN rows : rows[id].domain = domain}
    IN  {id \in matching :
            \A o \in matching :
                /\ ~RateLess(rows[id].success_rate, rows[o].success_rate)
                /\ rows[id].success_rate = rows[o].success_rate =>
                      rows[id].usage_count >= rows[o].usage_count}

\* One iteration of findOrCreateAgents(task, requiredDomains), for one domain
\* of the list; a call is its iterations one after the other.  An agent of
\* the domain found in the store is taken as it is; else analyzeAgentNeeds
\* is asked (the iteration fails when the provider does; a reply that does
\* not parse counts as no need), and on a need createAgent is called with the
\* capabilities the analysis names.
findOrCreateAgents(domain) ==
    LET existing == findAgentsByDomain(dynamic_agents, Str(domain))
        call == [NoFactoryCall EXCEPT !.op = "findOrCreateAgents"]
    IN  IF existing # {}
        THEN /\ \E id \in existing : fLast' = [call EXCEPT !.outcome = "found", !.returned = id]
             /\ UNCHANGED <<dynamic_agents, agentCache, now, createdFor, persistedFor>>
             /\ UNCHANGED <<modeVars, trackVars, memoryVars, fileVars, runVars, promptVars, planVars, selectVars>>
        ELSE \/ /\ \E outcome \in {"provider failed", "no need"} :
                      fLast' = [call EXCEPT !.outcome = outcome]
                /\ UNCHANGED <<dynamic_agents, agentCache, now, createdFor, persistedFor>>
                /\ UNCHANGED <<modeVars, trackVars, memoryVars, fileVars, runVars, promptVars, planVars, selectVars>>
             \/ \E missingCapabilities \in CapabilityLists :
                   createAgent(domain, missingCapabilities)

FindOrCreateAgents == \E domain \in FactoryDomains : findOrCreateAgents(domain)

\* A factory constructed over the store as it is: loadCachedAgents fills a new
\* cache with the loaded rows, each under its id.
Construct ==
    /\ \E loaded \in TopByUsage(dynamic_agents) :
          agentCache' = [id \in loaded |-> AgentOfRow(id, dynamic_agents[id])]
    /\ fLast' = [NoFactoryCall EXCEPT !.op = "construct"]
    /\ createdFor' = EmptyMap
    /\ UNCHANGED <<dynamic_agents, now, persistedFor>>
    /\ UNCHANGED <<modeVars, trackVars, memoryVars, fileVars, runVars, promptVars, planVars, selectVars>>

-----------------------------------------------------------------------------
(* The memory store: MemoryService.ts.                                     *)

RECURSIVE Split(_, _)
\* String.prototype.split(separator) for a one-character separator: the
\* pieces between the separators, empty pieces kept.
Split(text, separator) ==
    IF \A i \in DOMAIN text : text[i] # separator THEN <<text>>
    ELSE LET i == CHOOSE k \in DOMAIN text :
                    /\ text[k] = separator
                    /\ \A j \in 1..(k - 1) : text[j] # separator
         IN  <<SubSeq(text, 1, i - 1)>> \o Split(SubSeq(text, i + 1, Len(text)), separator)

IsKeyword(w) == Len(w) > 3

\* task.toLowerCase().split(" ").filter(w => w.length > 3)
Keywords(task) == SelectSeq(Split(toLowerCase(task), " "), IsKeyword)

\* The SQL function LOWER: ASCII letters only.
SqlLower(text) == [i \in DOMAIN text |-> AsciiLowerChar(text[i])]

RECURSIVE Like(_, _)
\* The SQL operator `text LIKE pattern`: % stands for any run of characters,
\* _ for any one character, and letters compare without case within ASCII.
Like(pattern, text) ==
    IF pattern = <<>> THEN text = <<>>
    ELSE IF Head(pattern) = "%"
         THEN Like(Tail(pattern), text) \/ (text # <<>> /\ Like(pattern, Tail(text)))
    ELSE IF text = <<>> THEN FALSE
    ELSE IF Head(pattern) = "_" THEN Like(Tail(pattern), Tail(text))
    ELSE /\ AsciiLowerChar(Head(pattern)) = AsciiLowerChar(Head(text))
         /\ Like(Tail(pattern), Tail(text))

\* WHERE LOWER(task) LIKE ? OR ... with the parameters `%${k}%`
MatchesAny(task, keywords) ==
    \E i \in DOMAIN keywords : Like(<<"%">> \o keywords[i] \o <<"%">>, SqlLower(task))

\* LIMIT 3
QueryLimit == 3

\* Mutant: the rows in ascending order of timestamp.
QueryResults_OldestFirst(rows, keywords) ==
    LET matching == {i \in DOMAIN rows : MatchesAny(rows[i].task, keywords)}
        n == IF Cardinality(matching) < QueryLimit THEN Cardinality(matching)
             ELSE QueryLimit
    IN  {res \in [1..n -> matching] :
            /\ \A j, k \in 1..n : j < k =>
                  /\ res[j] # res[k]
                  /\ rows[res[j]].timestamp <= rows[res[k]].timestamp
            /\ \A o \in matching \ Range(res) : \A j \in 1..n :
                  rows[res[j]].timestamp <= rows[o].timestamp}

\* ORDER BY timestamp DESC LIMIT 3 over the matching rows: the row ids the
\* query may return, rows of one timestamp coming in any order.
QueryResults(rows, keywords) ==
    LET matching == {i \in DOMAIN rows : MatchesAny(rows[i].task, keywords)}
        n == IF Cardinality(matching) < QueryLimit THEN Cardinality(matching)
             ELSE QueryLimit
    IN  {res \in [1..n -> matching] :
            /\ \A j, k \in 1..n : j < k =>
                  /\ res[j] # res[k]
                  /\ rows[res[j]].timestamp >= rows[res[k]].timestamp
            /\ \A o \in matching \ Range(res) : \A j \in 1..n :
                  rows[res[j]].timestamp >= rows[o].timestamp}

\* JSON.parse(JSON.stringify(object)) for an object of string properties (a
\* property is <<value>>, or Undefined): the properties whose value is
\* undefined are dropped.
JsonRoundTrip(object) ==
    [k \in {key \in DOMAIN object : object[key] # Undefined} |-> object[k]]

\* `${r.task}: ${JSON.parse(r.philosophy).historicalGrounding || ''}`
FormatSeed(row) ==
    Str(row.task) \o ": " \o
        (IF /\ "historicalGrounding" \in DOMAIN row.philosophy
            /\ IsTruthy(row.philosophy["historicalGrounding"])
         THEN row.philosophy["historicalGrounding"][1] ELSE "")

\* ---- bounds and inputs of the memory store ----
MaxStored == 4

MaxSeconds == 2

\* The philosophy as developConcept fills it (keyed by the round's focus) and
\* as the Philosophy interface declares it.
RunPhilosophy ==
    [k \in {"historical_grounding", "emotional_resonance", "technical_bridge"} |->
        <<"synthesis">>]

TypedPhilosophy ==
    ("historicalGrounding" :> <<"roots">>) @@ ("emotionalResonance" :> Undefined)

\* The (task, philosophy) pairs stored.
StoredSuccesses ==
    {<<(<<"d", "a", "s", "h", "b", "o", "a", "r", "d">>), RunPhilosophy>>,
     <<(<<"T", "o", "o", "l", " ", "d", "a", "s", "h", "b", "o", "a", "r", "d">>),
       TypedPhilosophy>>,
     <<(<<"É", "c", "o", "l", "e">>), RunPhilosophy>>}

\* The task texts queried: the stored ones, the empty initial prompt, a text
\* of short words only, and a word that is part of a stored word.
QueriedTasks ==
    {pair[1] : pair \in StoredSuccesses}
    \cup {<<>>, <<"a", " ", "c", "l", "i">>, <<"o", "a", "r", "d">>}

NoMemoryCall ==
    [op |-> "none", task |-> <<>>, outcome |-> "", rows |-> <<>>, seeds |-> <<>>]

MemoryInit ==
    /\ memories = <<>>
    /\ sessionMemory = <<>>
    /\ seconds = 1
    /\ memLast = NoMemoryCall

\* A second passes on the clock of CURRENT_TIMESTAMP.
TickSecond ==
    /\ seconds < MaxSeconds
    /\ seconds' = seconds + 1
    /\ UNCHANGED <<memories, sessionMemory, memLast>>
    /\ UNCHANGED <<modeVars, trackVars, factoryVars, fileVars, runVars, promptVars, planVars, selectVars>>

\* One findRelevantSuccesses(task) call.  With no keyword the WHERE clause is
\* empty and the statement does not compile: db.all reports the error and
\* the call fails.  dbOk tells whether the database serves a statement.
findRelevantSuccesses(task, dbOk) ==
    LET keywords == Keywords(task)
        call == [NoMemoryCall EXCEPT !.op = "findRelevantSuccesses", !.task = task]
    IN
    /\ IF keywords = <<>>
       THEN memLast' = [call EXCEPT !.outcome = "statement rejected"]
       ELSE IF ~dbOk
       THEN memLast' = [call EXCEPT !.outcome = "database failed"]
       ELSE \E res \in QueryResults(memories, keywords) :
               memLast' = [call EXCEPT
                              !.outcome = "returned", !.rows = res,
                              !.seeds = [j \in DOMAIN res |-> FormatSeed(memories[res[j]])]]
    /\ UNCHANGED <<memories, sessionMemory, seconds>>

FindRelevantSuccesses ==
    /\ \E task \in QueriedTasks, dbOk \in BOOLEAN : findRelevantSuccesses(task, dbOk)
    /\ UNCHANGED <<modeVars, trackVars, factoryVars, fileVars, runVars, promptVars, planVars, selectVars>>

\* One storeSuccess(task, philosophy, spec) call: the entry is pushed on the
\* session list, then the row is inserted; the call fails when the INSERT
\* does.
storeSuccess(task, philosophy, dbOk) ==
    /\ Len(sessionMemory) < MaxStored
    /\ sessionMemory' = Append(sessionMemory, [task |-> task, philosophy |-> philosophy])
    /\ IF dbOk
       THEN /\ memories' = Append(memories,
                              [task |-> task, philosophy |-> JsonRoundTrip(philosophy),
                               timestamp |-> seconds])
            /\ memLast' = [NoMemoryCall EXCEPT !.op = "storeSuccess", !.task = task,
                                               !.outcome = "stored"]
       ELSE /\ memLast' = [NoMemoryCall EXCEPT !.op = "storeSuccess", !.task = task,
                                               !.outcome = "database failed"]
            /\ UNCHANGED memories
    /\ UNCHANGED seconds

StoreSuccess ==
    /\ \E success \in StoredSuccesses, dbOk \in BOOLEAN :
          storeSuccess(success[1], success[2], dbOk)
    /\ UNCHANGED <<modeVars, trackVars, factoryVars, fileVars, runVars, promptVars, planVars, selectVars>>

-----------------------------------------------------------------------------
(* The output writer: FileService.ts.                                      *)

DigitChars == <<"0", "1", "2", "3", "4", "5", "6", "7", "8", "9">>

RECURSIVE Pad(_, _)
\* String(n).padStart(width, "0") for 0 <= n < 10^width, as characters
Pad(n, width) ==
    IF width = 0 THEN <<>>
    ELSE Pad(n \div 10, width - 1) \o <<DigitChars[(n % 10) + 1]>>

\* Date.prototype.toISOString for the years 0 to 9999: YYYY-MM-DDTHH:mm:ss.sssZ
toISOString(date) ==
    Pad(date.year, 4) \o <<"-">> \o Pad(date.month, 2) \o <<"-">> \o Pad(date.day, 2)
    \o <<"T">> \o Pad(date.hour, 2) \o <<":">> \o Pad(date.minute, 2) \o <<":">>
    \o Pad(date.second, 2) \o <<".">> \o Pad(date.millisecond, 3) \o <<"Z">>

\* .replace(/[:.]/g, "-")
ReplaceColonsAndDots(text) ==
    [i \in DOMAIN text |-> IF text[i] \in {":", "."} THEN "-" ELSE text[i]]

\* the class [a-z0-9]
IsLowerAlphanumeric(c) == c \in Range(LowerLetters) \cup Digits

RECURSIVE DropOtherChars(_)
\* the text after its leading run of characters outside [a-z0-9]
DropOtherChars(text) ==
    IF text = <<>> \/ IsLowerAlphanumeric(Head(text)) THEN text
    ELSE DropOtherChars(Tail(text))

RECURSIVE ReplaceOtherRuns(_)
\* .replace(/[^a-z0-9]+/g, "_"): every maximal run of other characters
\* becomes one underscore
ReplaceOtherRuns(text) ==
    IF text = <<>> THEN <<>>
    ELSE IF IsLowerAlphanumeric(Head(text))
         THEN <<Head(text)>> \o ReplaceOtherRuns(Tail(text))
         ELSE <<"_">> \o ReplaceOtherRuns(DropOtherChars(text))

\* .slice(0, n)
Slice(text, n) == SubSeq(text, 1, IF Len(text) < n THEN Len(text) ELSE n)

\* .slice(0, 50)
MaxNameLength == 50

\* Mutant: every other character becomes an underscore of its own.
SanitizeTaskName_PerCharacter(taskName) ==
    Slice([i \in DOMAIN taskName |->
              IF IsLowerAlphanumeric(ToLowerChar(taskName[i]))
              THEN ToLowerChar(taskName[i]) ELSE "_"],
          MaxNameLength)

\* taskName.toLowerCase().replace(/[^a-z0-9]+/g, "_").slice(0, 50)
SanitizeTaskName(taskName) == Slice(ReplaceOtherRuns(toLowerCase(taskName)), MaxNameLength)

\* `${sanitizedTaskName}_${timestamp}.md`
FileName(taskName, date) ==
    SanitizeTaskName(taskName) \o <<"_">> \o ReplaceColonsAndDots(toISOString(date))
    \o <<".", "m", "d">>

\* ---- inputs of the output writer ----
BuildTask ==
    <<"B", "u", "i", "l", "d", " ", "a", " ", "C", "L", "I", " ", "t", "o", "o", "l", "!", "!">>

\* A task name of more than 50 characters: twelve times "Tool! ".
LongTask == Flatten([i \in 1..12 |-> <<"T", "o", "o", "l", "!", " ">>])

SavedTasks == {BuildTask, LongTask, <<>>, <<"É", "c", "o", "l", "e">>}

SavedContents == {<<"#", "a">>, <<"#", "b">>}

\* The values of new Date() at the calls.
Dates ==
    {[year |-> 2026, month |-> 11, day |-> 3, hour |-> 10, minute |-> 4, second |-> 33,
      millisecond |-> 123],
     [year |-> 2026, month |-> 11, day |-> 3, hour |-> 10, minute |-> 4, second |-> 33,
      millisecond |-> 7],
     [year |-> 1970, month |-> 1, day |-> 1, hour |-> 0, minute |-> 0, second |-> 0,
      millisecond |-> 0]}

\* What writeFile ends in: the file written; the file not opened; or an
\* error while writing, which leaves the opened file with a part of the content.
WriteOutcomes == {"written", "open failed", "write failed"}

ProperPrefixes(content) == {SubSeq(content, 1, n) : n \in 0..(Len(content) - 1)}

NoSave ==
    [pc |-> "idle", taskName |-> <<>>, content |-> <<>>, outcome |-> "", filename |-> <<>>]

FilesInit ==
    /\ outputDir = FALSE
    /\ outputFiles = {}
    /\ save = NoSave

\* writeFile(filepath, content): the files under output/ afterwards
WrittenFiles(files, name, content) ==
    {f \in files : f.name # name} \cup {[name |-> name, content |-> content]}

\* saveOutput(taskName, content) up to the end of mkdir(outputDir, {recursive:
\* true}): the call fails when mkdir does.
saveOutputMkdir(taskName, content, made) ==
    /\ save.pc = "idle"
    /\ IF made
       THEN /\ outputDir' = TRUE
            /\ save' = [NoSave EXCEPT !.pc = "directory made", !.taskName = taskName,
                                      !.content = content]
       ELSE /\ save' = [NoSave EXCEPT !.taskName = taskName, !.content = content,
                                      !.outcome = "mkdir failed"]
            /\ UNCHANGED outputDir
    /\ UNCHANGED outputFiles

\* saveOutput from the end of mkdir on: the file name is built from the task
\* name and the time, and the file is written.
saveOutputWrite(date, outcome) ==
    LET name == FileName(save.taskName, date)
    IN  /\ save.pc = "directory made"
        /\ save' = [save EXCEPT !.pc = "idle", !.outcome = outcome,
                                !.filename = IF outcome = "written" THEN name ELSE <<>>]
        /\ CASE outcome = "written" ->
                   outputFiles' = WrittenFiles(outputFiles, name, save.content)
             [] outcome = "open failed" ->
                   UNCHANGED outputFiles
             [] outcome = "write failed" ->
                   \E part \in ProperPrefixes(save.content) :
                       outputFiles' = WrittenFiles(outputFiles, name, part)
        /\ UNCHANGED outputDir

MaxFiles == 2

SaveOutputMkdir ==
    /\ Cardinality(outputFiles) < MaxFiles
    /\ \E taskName \in SavedTasks, content \in SavedContents, made \in BOOLEAN :
          saveOutputMkdir(taskName, content, made)
    /\ UNCHANGED <<modeVars, trackVars, factoryVars, memoryVars, runVars, promptVars, planVars, selectVars>>

SaveOutputWrite ==
    /\ \E date \in Dates, outcome \in WriteOutcomes : saveOutputWrite(date, outcome)
    /\ UNCHANGED <<modeVars, trackVars, factoryVars, memoryVars, runVars, promptVars, planVars, selectVars>>

-----------------------------------------------------------------------------
(* The orchestrator's run: CreativeAILoop.ts.                              *)

\* task.match(/p1|p2|.../i): one of the patterns occurs in the task
MatchesPattern(task, patterns) == \E p \in patterns : Includes(toLowerCase(task), p)

\* generateClarifyingQuestions(task): the questions, each by its topic
generateClarifyingQuestions(task) ==
    <<"production">>
    \o (IF MatchesPattern(task, {<<"u", "i">>, <<"i", "n", "t", "e", "r", "f", "a", "c", "e">>,
                                 <<"d", "e", "s", "i", "g", "n">>, <<"a", "p", "p">>,
                                 <<"w", "e", "b", "s", "i", "t", "e">>,
                                 <<"f", "r", "o", "n", "t", "e", "n", "d">>})
        THEN <<"emotional tone">> ELSE <<>>)
    \o (IF MatchesPattern(task, {<<"d", "a", "t", "a">>, <<"a", "p", "i">>,
                                 <<"b", "a", "c", "k", "e", "n", "d">>,
                                 <<"d", "a", "t", "a", "b", "a", "s", "e">>,
                                 <<"p", "r", "o", "c", "e", "s", "s">>})
        THEN <<"scale">> ELSE <<>>)
    \o <<"technology stack">>

\* inferOutputType(task, responses)
inferOutputType(task) ==
    IF MatchesPattern(task, {<<"r", "e", "a", "c", "t">>,
                             <<"c", "o", "m", "p", "o", "n", "e", "n", "t">>, <<"u", "i">>,
                             <<"f", "r", "o", "n", "t", "e", "n", "d">>})
    THEN "react_app"
    ELSE IF MatchesPattern(task, {<<"c", "l", "i">>, <<"c", "o", "m", "m", "a", "n", "d">>,
                                  <<"t", "e", "r", "m", "i", "n", "a", "l">>,
                                  <<"s", "c", "r", "i", "p", "t">>})
    THEN "cli_tool"
    ELSE IF MatchesPattern(task, {<<"a", "p", "i">>, <<"b", "a", "c", "k", "e", "n", "d">>,
                                  <<"s", "e", "r", "v", "e", "r">>,
                                  <<"s", "e", "r", "v", "i", "c", "e">>})
    THEN "api_service"
    ELSE IF MatchesPattern(task, {<<"c", "o", "n", "f", "i", "g">>,
                                  <<"s", "e", "t", "t", "i", "n", "g", "s">>,
                                  <<"j", "s", "o", "n">>, <<"y", "a", "m", "l">>})
    THEN "configuration"
    ELSE "general"

\* experts.selectTechnicalExperts(outputType, preferences).join("+")
TechnicalExpertsName(outputType) ==
    CASE outputType = "react_app" -> "ReactArchitect+ComponentDesigner+StateManager"
      [] outputType = "cli_tool" -> "CommandGrammar+UnixPhilosopher+ErrorHandler"
      [] outputType = "api_service" -> "APIDesigner+DataModeler+SecurityExpert"
      [] outputType = "configuration" -> "SchemaDesigner+DataModeler"
      [] OTHER -> "SystemArchitect+CodeCraftsman"

\* Mutant: the second round held twice.
rounds_Repeated ==
    <<[focus |-> "historical_grounding", lead |-> "DesignPhilosopher"],
      [focus |-> "emotional_resonance", lead |-> "ExperienceArchitect"],
      [focus |-> "emotional_resonance", lead |-> "ExperienceArchitect"],
      [focus |-> "technical_bridge", lead |-> "TechnicalPoet"]>>

\* developConcept: const rounds
rounds ==
    <<[focus |-> "historical_grounding", lead |-> "DesignPhilosopher"],
      [focus |-> "emotional_resonance", lead |-> "ExperienceArchitect"],
      [focus |-> "technical_bridge", lead |-> "TechnicalPoet"]>>

\* Mutant: the user is asked after every round.
shouldCheckWithUser_Always(round) == TRUE

shouldCheckWithUser(round) == round.focus \in {"emotional_resonance", "technical_bridge"}

\* ---- bounds and inputs of the run ----
MaxRuns == 2

RunTasks == {<<>>, BuildTask, <<"d", "a", "t", "a", " ", "a", "p", "i">>}

\* The texts the user enters when refining a synthesis; the empty text is
\* falsy and counts as no refinement.
Refinements == {"refined", ""}

\* The content of the provider's reply to the output request.
GuideContent == <<"#", "a">>

NoRun ==
    [task |-> <<>>, questions |-> <<>>, asked |-> 0, round |-> 1,
     philosophy |-> EmptyMap, previousResponseId |-> Undefined, seeds |-> <<>>,
     outputType |-> "", synthesis |-> "", content |-> <<>>, outputPath |-> <<>>,
     expertInteractions |-> <<>>, failedAt |-> "",
     calls |-> <<>>, responseIds |-> <<>>, feedback |-> EmptyMap,
     requests |-> <<>>, totalCalls |-> 0]

RunInit ==
    /\ runPc = "idle"
    /\ runCtx = NoRun
    /\ runPending = {}
    /\ runTrace = <<>>
    /\ runStart = [outputFiles |-> {}, sessionMemory |-> <<>>, memories |-> <<>>,
                   tracked |-> 0]
    /\ runsDone = 0

\* The round the run stands in.
Round == rounds[runCtx.round]

\* The operation the run starts at a step.
Operation(pc) ==
    CASE pc = "askQuestions" -> "question"
      [] pc = "findRelevantSuccesses" -> "memory query"
      [] pc = "generateResponse" -> "provider call: " \o Round.focus
      [] pc = "getUserFeedback" -> "checkpoint: " \o Round.focus
      [] pc = "translateToSpec" -> "provider call: technical_specification"
      [] pc = "formatOutput" -> "provider call: claude_code_instructions"
      [] pc = "saveOutput" -> "saveOutput"
      [] pc = "storeSuccess" -> "storeSuccess"
      [] pc = "displayExpertSummary" -> "summary"

\* The steps at which the run starts an operation, and those inside one.
StartingSteps ==
    {"askQuestions", "findRelevantSuccesses", "generateResponse", "getUserFeedback",
     "translateToSpec", "formatOutput", "saveOutput", "storeSuccess",
     "displayExpertSummary"}

\* The step after a round's provider call and checkpoint.
AfterRound ==
    IF runCtx.round < Len(rounds) THEN "generateResponse" ELSE "translateToSpec"

\* The run ends in the error of the operation it waited for.
Fails ==
    /\ runPc' = "failed"
    /\ runCtx' = [runCtx EXCEPT !.failedAt = runPc]
    /\ runPending' = {}

\* The list and the call log after one trackExpertInteraction call of the run.
Tracks(interaction) ==
    /\ expertInteractions' = trackExpertInteraction(expertInteractions, interaction)
    /\ trackLog' = Append(trackLog, interaction)
    /\ UNCHANGED snapshot

\* run(initialPrompt) is called: interactiveTaskAnalysis builds the questions.
run(initialPrompt) ==
    /\ runPc \in {"idle", "done", "failed"}
    /\ runsDone < MaxRuns
    /\ runCtx' = [NoRun EXCEPT !.task = initialPrompt,
                               !.questions = generateClarifyingQuestions(initialPrompt),
                               !.outputType = inferOutputType(initialPrompt)]
    /\ runPc' = "askQuestions"
    /\ runPending' = {}
    /\ runTrace' = <<>>
    /\ runStart' = [outputFiles |-> outputFiles, sessionMemory |-> sessionMemory,
                    memories |-> memories, tracked |-> Len(trackLog)]
    /\ runsDone' = runsDone + 1
    /\ UNCHANGED <<modeVars, trackVars, factoryVars, memoryVars, fileVars, promptVars, planVars, selectVars>>

RunStart == \E task \in RunTasks : run(task)

\* The initial prompts of the documented example sessions.
ExampleDashboard == Chars("Create a modern data visualization dashboard component")

ExampleBranches == Chars("Build a CLI tool for managing git branches")

ExampleSchema == Chars("Design a configuration schema for a microservices orchestrator")

\* The words of other initial prompts.
PromptWords ==
    {Chars("Build"), Chars("a"), Chars("UI"), Chars("process"), Chars("Website"),
     Chars("report"), Chars("API")}

MaxPromptWords == 3

\* The initial prompts whose analysis is looked at: the examples, and the
\* prompts of up to MaxPromptWords words.
AnalyzedPrompts ==
    {ExampleDashboard, ExampleBranches, ExampleSchema}
    \cup {Chars(JoinTexts(words, " ")) : words \in SeqsUpTo(PromptWords, MaxPromptWords)}

\* run is called on one of the analyzed prompts.
AnalyzeTask == \E task \in AnalyzedPrompts : run(task)

\* Mutant: the prompt shows the entry of the round before only.
PreviousInsights_LastOnly(philosophy) ==
    LET held == SelectSeq([i \in DOMAIN rounds |-> rounds[i].focus],
                          LAMBDA focus : focus \in DOMAIN philosophy)
    IN  IF held = <<>> THEN <<>>
        ELSE <<held[Len(held)] \o ": " \o philosophy[held[Len(held)]][1]>>

\* generateRoundPrompt, <previous_insights>: Object.entries(currentPhilosophy)
\* .map(([key, value]) => `${key}: ${value}`), the entries in the order of
\* their insertion, which is the order of the rounds.
PreviousInsights(philosophy) ==
    LET held == SelectSeq([i \in DOMAIN rounds |-> rounds[i].focus],
                          LAMBDA focus : focus \in DOMAIN philosophy)
    IN  [i \in DOMAIN held |-> held[i] \o ": " \o philosophy[held[i]][1]]

\* The steps that call openai.generateResponse.
ProviderSteps == {"generateResponse", "translateToSpec", "formatOutput"}

\* The system and user prompts generated for the provider call of a step:
\* generateRoundPrompt for a round (the lead's instructions and the
\* collaboration framing; the discussion request), generateTechnicalPrompt,
\* and the two template texts of formatOutput.
GeneratedPrompts(pc) ==
    CASE pc = "generateResponse" ->
            [systemPrompt |-> "instructions of " \o Round.lead \o " leading " \o Round.focus,
             userPrompt |-> "discussion of " \o Round.focus]
      [] pc = "translateToSpec" ->
            [systemPrompt |-> "role of the specification generator",
             userPrompt |-> "request for the technical specification"]
      [] pc = "formatOutput" ->
            [systemPrompt |-> "role of the instruction generator",
             userPrompt |-> "request for the implementation guide"]

\* generateResponse(prompt, config, previousResponseId): requestBody.messages
Messages(userPrompt) == <<[role |-> "user", content |-> userPrompt]>>

\* The run reaches a yield* on an operation: the operation is started, and
\* the run waits for its end.  A provider call is made with the user prompt
\* of the generated pair.
RunIssue ==
    /\ runPc \in StartingSteps
    /\ runPending = {}
    /\ runPending' = {Operation(runPc)}
    /\ runTrace' = Append(runTrace, Operation(runPc))
    /\ runCtx' =
          LET called == IF runPc = "generateResponse"
                        THEN [runCtx EXCEPT !.calls = Append(@,
                                 [focus |-> Round.focus,
                                  previousResponseId |-> runCtx.previousResponseId,
                                  previousInsights |-> PreviousInsights(runCtx.philosophy)])]
                        ELSE runCtx
          IN  IF runPc \in ProviderSteps
              THEN [called EXCEPT !.requests = Append(@,
                       [operation |-> Operation(runPc),
                        generated |-> GeneratedPrompts(runPc),
                        messages |-> Messages(GeneratedPrompts(runPc).userPrompt)])]
              ELSE called
    /\ UNCHANGED <<runPc, runStart, runsDone>>
    /\ UNCHANGED <<modeVars, trackVars, factoryVars, memoryVars, fileVars, promptVars, planVars, selectVars>>

\* cli.askQuestions: one question is answered, or its prompt fails.
QuestionAnswered ==
    /\ runPc = "askQuestions" /\ runPending # {}
    /\ \E answered \in BOOLEAN :
          IF answered
          THEN /\ runCtx' = [runCtx EXCEPT !.asked = @ + 1]
               /\ runPc' = IF runCtx.asked + 1 = Len(runCtx.questions)
                           THEN "findRelevantSuccesses" ELSE "askQuestions"
               /\ runPending' = {}
          ELSE Fails
    /\ UNCHANGED <<runTrace, runStart, runsDone>>
    /\ UNCHANGED <<modeVars, trackVars, factoryVars, memoryVars, fileVars, promptVars, planVars, selectVars>>

\* memory.findRelevantSuccesses(initialPrompt) ends.
MemoryQueried ==
    /\ runPc = "findRelevantSuccesses" /\ runPending # {}
    /\ \E dbOk \in BOOLEAN :
          /\ findRelevantSuccesses(runCtx.task, dbOk)
          /\ IF memLast'.outcome = "returned"
             THEN /\ runCtx' = [runCtx EXCEPT !.seeds = memLast'.seeds]
                  /\ runPc' = "generateResponse"
                  /\ runPending' = {}
             ELSE Fails
    /\ UNCHANGED <<runTrace, runStart, runsDone>>
    /\ UNCHANGED <<modeVars, trackVars, factoryVars, fileVars, promptVars, planVars, selectVars>>

\* extractSynthesis(response.content), for the reply of a round
SynthesisOf(round) == "synthesis of " \o round.focus

\* response.responseId of a round's reply: the response's response_id, which
\* a reply may lack.
ResponseIds(round) == {Undefined, <<"resp_" \o round.focus>>}

\* The replies of the conceptual rounds that carry no response id, over all
\* runs.
MaxIdless == 1

Idless ==
    Cardinality({i \in DOMAIN trackLog :
                    /\ \E r \in DOMAIN rounds : /\ trackLog[i].round = rounds[r].focus
                                                /\ trackLog[i].expertName = rounds[r].lead
                    /\ trackLog[i].responseId = Undefined})

\* developConcept: the provider call of a round ends; on a reply the
\* synthesis is kept under the round's focus and the interaction tracked.
RoundAnswered ==
    /\ runPc = "generateResponse" /\ runPending # {}
    /\ \E replied \in BOOLEAN, responseId \in ResponseIds(Round) :
          IF replied
          THEN LET synthesis == SynthesisOf(Round)
               IN  /\ responseId = Undefined => Idless < MaxIdless
                   /\ runCtx' = [runCtx EXCEPT
                         !.responseIds = Append(@, responseId),
                         !.philosophy = (Round.focus :> <<synthesis>>) @@ @,
                         !.previousResponseId = responseId,
                         !.synthesis = synthesis,
                         !.round = IF shouldCheckWithUser(Round) \/ @ = Len(rounds)
                                   THEN @ ELSE @ + 1]
                   /\ Tracks([expertName |-> Round.lead, round |-> Round.focus,
                              callCount |-> 1, insights |-> <<synthesis>>,
                              responseId |-> responseId])
                   /\ runPc' = IF shouldCheckWithUser(Round) THEN "getUserFeedback"
                               ELSE AfterRound
                   /\ runPending' = {}
          ELSE /\ Fails
               /\ UNCHANGED trackVars
    /\ UNCHANGED <<runTrace, runStart, runsDone>>
    /\ UNCHANGED <<modeVars, factoryVars, memoryVars, fileVars, promptVars, planVars, selectVars>>

\* cli.getUserFeedback: the confirm prompt ends.  On "no" the feedback is
\* null and the run goes on; on "yes" the input prompt follows.
FeedbackConfirmed ==
    /\ runPc = "getUserFeedback" /\ runPending # {}
    /\ \E answer \in {"yes", "no", "failed"} :
          CASE answer = "yes" ->
                  /\ runPc' = "input"
                  /\ UNCHANGED <<runCtx, runPending>>
            [] answer = "no" ->
                  /\ runPc' = AfterRound
                  /\ runCtx' = [runCtx EXCEPT
                        !.round = IF @ = Len(rounds) THEN @ ELSE @ + 1,
                        !.feedback = (Round.focus :> Undefined) @@ @]
                  /\ runPending' = {}
            [] answer = "failed" -> Fails
    /\ UNCHANGED <<runTrace, runStart, runsDone>>
    /\ UNCHANGED <<modeVars, trackVars, factoryVars, memoryVars, fileVars, promptVars, planVars, selectVars>>

\* cli.getUserFeedback: the input prompt ends.  A non-empty refinement
\* replaces the synthesis and is tracked as the user's interaction.
FeedbackEntered ==
    /\ runPc = "input" /\ runPending # {}
    /\ \/ \E feedback \in Refinements :
             /\ IF feedback # ""
                THEN /\ runCtx' = [runCtx EXCEPT
                           !.philosophy = (Round.focus :> <<feedback>>) @@ @,
                           !.round = IF @ = Len(rounds) THEN @ ELSE @ + 1,
                           !.feedback = (Round.focus :> <<feedback>>) @@ @]
                     /\ Tracks([expertName |-> "User", round |-> Round.focus,
                                callCount |-> 1, insights |-> <<feedback>>,
                                responseId |-> Undefined])
                ELSE /\ runCtx' = [runCtx EXCEPT
                           !.round = IF @ = Len(rounds) THEN @ ELSE @ + 1,
                           !.feedback = (Round.focus :> <<feedback>>) @@ @]
                     /\ UNCHANGED trackVars
             /\ runPc' = AfterRound
             /\ runPending' = {}
       \/ /\ Fails
          /\ UNCHANGED trackVars
    /\ UNCHANGED <<runTrace, runStart, runsDone>>
    /\ UNCHANGED <<modeVars, factoryVars, memoryVars, fileVars, promptVars, planVars, selectVars>>

\* translateToSpec: the provider call ends; on a reply the interaction of
\* the technical experts is tracked.
SpecTranslated ==
    /\ runPc = "translateToSpec" /\ runPending # {}
    /\ \E replied \in BOOLEAN :
          IF replied
          THEN /\ Tracks([expertName |-> TechnicalExpertsName(runCtx.outputType),
                          round |-> "technical_specification", callCount |-> 1,
                          insights |-> <<"implementation">>, responseId |-> Undefined])
               /\ runPc' = "formatOutput"
               /\ runPending' = {}
               /\ UNCHANGED runCtx
          ELSE /\ Fails
               /\ UNCHANGED trackVars
    /\ UNCHANGED <<runTrace, runStart, runsDone>>
    /\ UNCHANGED <<modeVars, factoryVars, memoryVars, fileVars, promptVars, planVars, selectVars>>

\* formatOutput: the provider call ends; on a reply the interaction of the
\* output generator is tracked.
OutputFormatted ==
    /\ runPc = "formatOutput" /\ runPending # {}
    /\ \E replied \in BOOLEAN :
          IF replied
          THEN /\ Tracks([expertName |-> "OutputGenerator",
                          round |-> "claude_code_instructions", callCount |-> 1,
                          insights |-> <<"Generated final implementation guide">>,
                          responseId |-> Undefined])
               /\ runCtx' = [runCtx EXCEPT !.content = GuideContent]
               /\ runPc' = "saveOutput"
               /\ runPending' = {}
          ELSE /\ Fails
               /\ UNCHANGED trackVars
    /\ UNCHANGED <<runTrace, runStart, runsDone>>
    /\ UNCHANGED <<modeVars, factoryVars, memoryVars, fileVars, promptVars, planVars, selectVars>>

\* files.saveOutput(context.task, response.content): mkdir ends.
DirectoryMade ==
    /\ runPc = "saveOutput" /\ runPending # {}
    /\ \E made \in BOOLEAN :
          /\ saveOutputMkdir(runCtx.task, runCtx.content, made)
          /\ IF made
             THEN /\ runPc' = "writeFile"
                  /\ UNCHANGED <<runCtx, runPending>>
             ELSE Fails
    /\ UNCHANGED <<runTrace, runStart, runsDone>>
    /\ UNCHANGED <<modeVars, trackVars, factoryVars, memoryVars, promptVars, planVars, selectVars>>

\* files.saveOutput: writeFile ends; then openai.getExpertInteractions().
FileWritten ==
    /\ runPc = "writeFile" /\ runPending # {}
    /\ \E date \in Dates, outcome \in WriteOutcomes :
          /\ saveOutputWrite(date, outcome)
          /\ IF outcome = "written"
             THEN /\ runCtx' = [runCtx EXCEPT !.outputPath = save'.filename,
                                              !.expertInteractions = expertInteractions]
                  /\ snapshot' = getExpertInteractions(expertInteractions)
                  /\ runPc' = "storeSuccess"
                  /\ runPending' = {}
             ELSE Fails /\ UNCHANGED snapshot
    /\ UNCHANGED <<expertInteractions, trackLog>>
    /\ UNCHANGED <<runTrace, runStart, runsDone>>
    /\ UNCHANGED <<modeVars, factoryVars, memoryVars, promptVars, planVars, selectVars>>

\* memory.storeSuccess(taskContext.task, philosophy, spec) ends.
SuccessStored ==
    /\ runPc = "storeSuccess" /\ runPending # {}
    /\ \E dbOk \in BOOLEAN :
          /\ storeSuccess(runCtx.task, runCtx.philosophy, dbOk)
          /\ IF dbOk
             THEN /\ runPc' = "displayExpertSummary"
                  /\ runPending' = {}
                  /\ UNCHANGED runCtx
             ELSE Fails
    /\ UNCHANGED <<runTrace, runStart, runsDone>>
    /\ UNCHANGED <<modeVars, trackVars, factoryVars, fileVars, promptVars, planVars, selectVars>>

RECURSIVE TotalCalls(_)
\* displayExpertSummary: interactions.reduce((sum, i) => sum + i.callCount, 0)
TotalCalls(interactions) ==
    IF interactions = <<>> THEN 0
    ELSE Head(interactions).callCount + TotalCalls(Tail(interactions))

\* displayExpertSummary has written the summary of the list that
\* getExpertInteractions returned, with its total; run returns its result.
SummaryDisplayed ==
    /\ runPc = "displayExpertSummary" /\ runPending # {}
    /\ runPc' = "done"
    /\ runPending' = {}
    /\ runCtx' = [runCtx EXCEPT !.totalCalls = TotalCalls(Content(snapshot))]
    /\ UNCHANGED <<runTrace, runStart, runsDone>>
    /\ UNCHANGED <<modeVars, trackVars, factoryVars, memoryVars, fileVars, promptVars, planVars, selectVars>>

-----------------------------------------------------------------------------
(* The round tables and the round planner: ModeInference.ts.               *)

\* roundsByMode of the base variant
roundsByMode ==
    [pr |-> <<[focus |-> "constraints", lead |-> "SpecScribe"],
              [focus |-> "architecture_plan", lead |-> "EffectArchitect"],
              [focus |-> "tests_first", lead |-> "TestEngineer"],
              [focus |-> "impl", lead |-> "CodeGen"],
              [focus |-> "consistency_gate", lead |-> "DXEnforcer"],
              [focus |-> "pr_summary", lead |-> "PRWriter"]>>,
     design_review |-> <<[focus |-> "design_principles", lead |-> "DesignPhilosopher"],
                         [focus |-> "architecture_plan", lead |-> "EffectArchitect"],
                         [focus |-> "consistency_gate", lead |-> "DXEnforcer"]>>,
     explore |-> <<[focus |-> "concepts", lead |-> "DesignPhilosopher"],
                   [focus |-> "experience_goals", lead |-> "ExperienceArchitect"],
                   [focus |-> "technical_bridge", lead |-> "TechnicalPoet"]>>]

\* baseRoundsByMode of the extended variant, as the module defines it
ExtendedRoundTable ==
    [pr |-> <<[focus |-> "constraints", lead |-> "SpecScribe"],
              [focus |-> "architecture_plan", lead |-> "EffectArchitect"],
              [focus |-> "tests_first", lead |-> "TestEngineer"],
              [focus |-> "impl", lead |-> "CodeGen"],
              [focus |-> "consistency_gate", lead |-> "DXEnforcer"],
              [focus |-> "pr_summary", lead |-> "PRWriter"],
              [focus |-> "final_synthesis", lead |-> "MasterReviewer"]>>,
     design_review |-> <<[focus |-> "design_principles", lead |-> "DesignPhilosopher"],
                         [focus |-> "architecture_plan", lead |-> "EffectArchitect"],
                         [focus |-> "consistency_gate", lead |-> "DXEnforcer"],
                         [focus |-> "final_optimization", lead |-> "MasterReviewer"]>>,
     explore |-> <<[focus |-> "concepts", lead |-> "DesignPhilosopher"],
                   [focus |-> "experience_goals", lead |-> "ExperienceArchitect"],
                   [focus |-> "technical_bridge", lead |-> "TechnicalPoet"],
                   [focus |-> "creative_synthesis", lead |-> "MasterReviewer"]>>]

\* Array.prototype.splice(start, 0, item) for 0 <= start: the item is inserted
\* before the element of index start (counted from 0), or at the end.
splice(array, start, item) ==
    LET at == IF start > Len(array) THEN Len(array) ELSE start
    IN  SubSeq(array, 1, at) \o <<item>> \o SubSeq(array, at + 1, Len(array))

\* planRounds: the round of a dynamic agent
DynamicRound(agent) ==
    [focus |-> "dynamic_" \o agent.domain, lead |-> agent.name, dynamicAgent |-> agent]

RECURSIVE InsertTeam(_, _, _)
\* for (const agent of team.team) enhancedRounds.splice(insertIndex, 0, {...})
InsertTeam(enhancedRounds, insertIndex, team) ==
    IF team = <<>> THEN enhancedRounds
    ELSE InsertTeam(splice(enhancedRounds, insertIndex, DynamicRound(Head(team))),
                    insertIndex, Tail(team))

\* Mutant: the rounds of the agents are inserted whatever the analysis says.
planRounds_NeedIgnored(table, mode, factory, analysis, dynamicAgents, teamMade) ==
    LET baseRounds == table[mode]
    IN  IF ~factory THEN [outcome |-> "returned", rounds |-> baseRounds, table |-> table]
        ELSE IF ~dynamicAgents.ok \/ ~teamMade THEN [outcome |-> "failed", rounds |-> <<>>, table |-> table]
        ELSE [outcome |-> "returned",
              rounds |-> InsertTeam(baseRounds, IF mode = "explore" THEN 1 ELSE 2,
                                    dynamicAgents.agents),
              table |-> table]

\* planRounds(mode, task, agentFactory) of the extended variant, over the
\* table as it stands.  factory: whether a factory is supplied; analysis: what
\* analyzeAgentNeeds ends in ("failed", "not needed", "needed");
\* dynamicAgents: what findOrCreateAgents ends in (ok or not, and the agents);
\* teamMade: whether createAgentTeam gives a team, which then is the agents
\* passed.  The result holds the rounds returned and the table afterwards.
planRounds(table, mode, factory, analysis, dynamicAgents, teamMade) ==
    LET baseRounds == table[mode]
    IN  IF ~factory \/ analysis = "not needed"
        THEN [outcome |-> "returned", rounds |-> baseRounds, table |-> table]
        ELSE IF analysis = "failed" \/ ~dynamicAgents.ok
        THEN [outcome |-> "failed", rounds |-> <<>>, table |-> table]
        ELSE IF Len(dynamicAgents.agents) = 0
        THEN [outcome |-> "returned", rounds |-> baseRounds, table |-> table]
        ELSE IF ~teamMade THEN [outcome |-> "failed", rounds |-> <<>>, table |-> table]
        ELSE [outcome |-> "returned",
              rounds |-> InsertTeam(baseRounds, IF mode = "explore" THEN 1 ELSE 2,
                                    dynamicAgents.agents),
              table |-> table]

\* planRounds(mode) of the base variant
planRoundsBase(mode) == roundsByMode[mode]

\* ---- bounds and inputs of the planner ----
MaxTeam == 3

\* The dynamic agents findOrCreateAgents may return.
PlanAgents ==
    {[id |-> "viz_pro_1", name |-> "Viz Pro", domain |-> "visualization"],
     [id |-> "audio_sage_1", name |-> "Audio Sage", domain |-> "audio"],
     [id |-> "audio_sage_2", name |-> "Audio Sage", domain |-> "audio"]}

NoPlan ==
    [variant |-> "", mode |-> "", factory |-> FALSE, analysis |-> "", team |-> <<>>,
     outcome |-> "", rounds |-> <<>>]

PlanInit ==
    /\ baseRoundsByMode = ExtendedRoundTable
    /\ plan = NoPlan

\* One planRounds call of the base variant.
PlanRoundsBase ==
    /\ \E mode \in Modes :
          plan' = [NoPlan EXCEPT !.variant = "base", !.mode = mode, !.outcome = "returned",
                                 !.rounds = planRoundsBase(mode)]
    /\ UNCHANGED baseRoundsByMode
    /\ UNCHANGED <<modeVars, trackVars, factoryVars, memoryVars, fileVars, runVars, promptVars, selectVars>>

\* One planRounds call of the extended variant.  analyzeAgentNeeds is called
\* only with a factory, findOrCreateAgents only after an analysis that
\* reports a need, and createAgentTeam only for one agent or more.
PlanRounds ==
    /\ \E mode \in Modes, factory \in BOOLEAN,
          analysis \in {"failed", "not needed", "needed"},
          dynamicAgents \in {[ok |-> FALSE, agents |-> <<>>]}
                            \cup [ok : {TRUE}, agents : SeqsUpTo(PlanAgents, MaxTeam)],
          teamMade \in BOOLEAN :
          LET result == planRounds(baseRoundsByMode, mode, factory, analysis,
                                   dynamicAgents, teamMade)
              asked == factory /\ analysis = "needed"
          IN  /\ plan' = [NoPlan EXCEPT
                    !.variant = "extended", !.mode = mode, !.factory = factory,
                    !.analysis = IF factory THEN analysis ELSE "",
                    !.team = IF asked /\ dynamicAgents.ok /\ teamMade
                             THEN dynamicAgents.agents ELSE <<>>,
                    !.outcome = result.outcome, !.rounds = result.rounds]
              /\ baseRoundsByMode' = result.table
    /\ UNCHANGED <<modeVars, trackVars, factoryVars, memoryVars, fileVars, runVars, promptVars, selectVars>>

-----------------------------------------------------------------------------
(* The expert registry's round prompt: ExpertRegistry.ts, with              *)
(* getDesignPhilosopherMode of ModeInference.ts.  The texts of this part    *)
(* are strings; a line end is \n.                                          *)

\* String.prototype.includes
includes(text, part) ==
    \E i \in 1..(Len(text) - Len(part) + 1) : SubSeq(text, i, i + Len(part) - 1) = part

\* String.prototype.toUpperCase on one character (ASCII letters)
ToUpperChar(c) ==
    IF \E i \in DOMAIN LowerLetters : LowerLetters[i] = c
    THEN UpperLetters[CHOOSE i \in DOMAIN LowerLetters : LowerLetters[i] = c]
    ELSE c

RECURSIVE toUpperCaseString(_)
\* mode.toUpperCase()
toUpperCaseString(text) ==
    IF text = "" THEN ""
    ELSE ToUpperChar(SubSeq(text, 1, 1)) \o toUpperCaseString(SubSeq(text, 2, Len(text)))

RECURSIVE toLowerCaseString(_)
\* context.task.toLowerCase()
toLowerCaseString(text) ==
    IF text = "" THEN ""
    ELSE ToLowerChar(SubSeq(text, 1, 1)) \o toLowerCaseString(SubSeq(text, 2, Len(text)))

RECURSIVE JoinStrings(_, _)
\* Array.prototype.join(separator) over strings
JoinStrings(texts, separator) ==
    IF texts = <<>> THEN ""
    ELSE IF Len(texts) = 1 THEN texts[1]
    ELSE texts[1] \o separator \o JoinStrings(Tail(texts), separator)

\* private conceptualExperts: Record<string, Expert> (name, prompt and
\* systemPrompt of each expert; line ends are \n)
conceptualExperts ==
  [
    DesignPhilosopher |->
        [name |-> "DesignPhilosopher",
         prompt |-> "Find deeper meaning and historical resonance in design choices",
         systemPrompt |->
            "You are the DesignPhilosopher expert. Your role is to find deeper meaning and historical resonance in design choices. \n"
            \o "\n"
            \o "<expert_role>\n"
            \o "You bring historical context and timeless design principles to modern challenges. You understand how great design transcends trends and creates lasting impact through thoughtful decision-making rooted in proven principles.\n"
            \o "</expert_role>\n"
            \o "\n"
            \o "<perspective_guidelines>\n"
            \o "- Reference historical design movements and their lasting principles\n"
            \o "- Identify timeless patterns that transcend current trends\n"
            \o "- Connect design decisions to deeper human needs and behaviors\n"
            \o "- Balance innovation with proven design wisdom\n"
            \o "- Focus on the \"why\" behind design choices, not just the \"what\"\n"
            \o "</perspective_guidelines>"],
    ExperienceArchitect |->
        [name |-> "ExperienceArchitect",
         prompt |-> "Define how it should feel to use and the emotional journey",
         systemPrompt |->
            "You are the ExperienceArchitect expert. Your role is to define how it should feel to use and design the emotional journey.\n"
            \o "\n"
            \o "<expert_role>\n"
            \o "You craft meaningful user experiences by understanding the emotional journey, workflow patterns, and human psychology. You ensure that every interaction serves both functional and emotional needs.\n"
            \o "</expert_role>\n"
            \o "\n"
            \o "<perspective_guidelines>\n"
            \o "- Map the complete emotional journey from first contact to mastery\n"
            \o "- Identify key moments of delight, friction, and decision-making\n"
            \o "- Consider accessibility and inclusive design principles\n"
            \o "- Balance efficiency with emotional satisfaction\n"
            \o "- Design for both novice and expert users\n"
            \o "</perspective_guidelines>"],
    SystemsTheorist |->
        [name |-> "SystemsTheorist",
         prompt |-> "Identify elegant organizational principles and patterns",
         systemPrompt |->
            "You are the SystemsTheorist expert. Your role is to identify elegant organizational principles and patterns.\n"
            \o "\n"
            \o "<expert_role>\n"
            \o "You see the big picture and understand how complex systems achieve elegance through proper organization. You identify patterns that reduce complexity while maintaining power and flexibility.\n"
            \o "</expert_role>\n"
            \o "\n"
            \o "<perspective_guidelines>\n"
            \o "- Look for underlying organizational principles that scale\n"
            \o "- Identify patterns that reduce cognitive load\n"
            \o "- Balance simplicity with comprehensive functionality\n"
            \o "- Consider system boundaries and interfaces\n"
            \o "- Focus on composability and modularity\n"
            \o "</perspective_guidelines>"],
    TechnicalPoet |->
        [name |-> "TechnicalPoet",
         prompt |-> "Bridge conceptual beauty with technical pragmatism",
         systemPrompt |->
            "You are the TechnicalPoet expert. Your role is to bridge conceptual beauty with technical pragmatism.\n"
            \o "\n"
            \o "<expert_role>\n"
            \o "You translate abstract concepts into concrete technical implementations while preserving the essence and elegance of the original vision. You ensure that technical constraints enhance rather than compromise the design philosophy.\n"
            \o "</expert_role>\n"
            \o "\n"
            \o "<perspective_guidelines>\n"
            \o "- Find technical solutions that embody the design philosophy\n"
            \o "- Balance ideal vision with practical constraints\n"
            \o "- Identify implementation approaches that feel natural and intuitive\n"
            \o "- Ensure technical architecture supports the intended experience\n"
            \o "- Translate abstract concepts into concrete development guidance\n"
            \o "</perspective_guidelines>"],
    ColorTheorist |->
        [name |-> "ColorTheorist",
         prompt |-> "Understand color psychology and visual harmony",
         systemPrompt |->
            "You are the ColorTheorist expert. Your role is to understand color psychology and visual harmony.\n"
            \o "\n"
            \o "<expert_role>\n"
            \o "You understand how color affects emotion, perception, and behavior. You create visual systems that support the intended experience through thoughtful color choices and visual hierarchy.\n"
            \o "</expert_role>\n"
            \o "\n"
            \o "<perspective_guidelines>\n"
            \o "- Consider cultural and psychological associations of colors\n"
            \o "- Create visual systems that support usability and accessibility\n"
            \o "- Balance aesthetic appeal with functional requirements\n"
            \o "- Ensure color choices reinforce the brand and emotional tone\n"
            \o "- Design for various viewing conditions and color blindness\n"
            \o "</perspective_guidelines>"],
    DataPhilosopher |->
        [name |-> "DataPhilosopher",
         prompt |-> "Find meaning in data relationships and information architecture",
         systemPrompt |->
            "You are the DataPhilosopher expert. Your role is to find meaning in data relationships and information architecture.\n"
            \o "\n"
            \o "<expert_role>\n"
            \o "You understand that data structures reflect and shape thinking patterns. You design information architectures that feel intuitive and support natural mental models while maintaining technical efficiency.\n"
            \o "</expert_role>\n"
            \o "\n"
            \o "<perspective_guidelines>\n"
            \o "- Align data structures with user mental models\n"
            \o "- Identify relationships that create meaningful connections\n"
            \o "- Design for both human understanding and machine efficiency\n"
            \o "- Consider data lifecycle and evolution patterns\n"
            \o "- Balance normalization with practical usability\n"
            \o "</perspective_guidelines>"],
    SpecScribe |->
        [name |-> "SpecScribe",
         prompt |-> "Restate acceptance criteria and identify files to touch",
         systemPrompt |->
            "You are the SpecScribe expert. Your role is to clarify constraints and acceptance criteria for implementation tasks.\n"
            \o "\n"
            \o "<expert_role>\n"
            \o "You translate ambiguous requirements into concrete, actionable specifications. You identify exactly what needs to be built, what files need modification, and what the success criteria are.\n"
            \o "</expert_role>\n"
            \o "\n"
            \o "<perspective_guidelines>\n"
            \o "- Break down requirements into measurable acceptance criteria\n"
            \o "- Identify specific files, functions, and interfaces to modify\n"
            \o "- Flag missing requirements and assumptions\n"
            \o "- Define clear success metrics\n"
            \o "- Scope the minimal viable implementation\n"
            \o "</perspective_guidelines>"],
    EffectArchitect |->
        [name |-> "EffectArchitect",
         prompt |-> "Design Effect layers, environments, schemas, and I/O boundaries",
         systemPrompt |->
            "You are the EffectArchitect expert. Your role is to design clean Effect-ts architectures with proper layer separation and error handling.\n"
            \o "\n"
            \o "<expert_role>\n"
            \o "You create robust, composable architectures using Effect-ts patterns. You design service layers, error types, configuration schemas, and I/O boundaries that are type-safe and testable.\n"
            \o "</expert_role>\n"
            \o "\n"
            \o "<perspective_guidelines>\n"
            \o "- Use Effect services and layers for dependency injection\n"
            \o "- Define proper error types and error handling strategies\n"
            \o "- Create schemas for validation and configuration\n"
            \o "- Separate pure business logic from effects\n"
            \o "- Design composable, testable service interfaces\n"
            \o "</perspective_guidelines>"],
    TestEngineer |->
        [name |-> "TestEngineer",
         prompt |-> "Design comprehensive test strategy with Test Layers",
         systemPrompt |->
            "You are the TestEngineer expert. Your role is to design comprehensive testing strategies using modern tools like Vitest and Bun.\n"
            \o "\n"
            \o "<expert_role>\n"
            \o "You create test architectures that validate behavior, not implementation. You design Test Layers for Effect services, integration tests, and end-to-end validation strategies.\n"
            \o "</expert_role>\n"
            \o "\n"
            \o "<perspective_guidelines>\n"
            \o "- Write tests first to drive clean interfaces\n"
            \o "- Create Test Layers for mocking Effect services\n"
            \o "- Focus on behavior testing over implementation testing\n"
            \o "- Design integration test strategies\n"
            \o "- Ensure tests are fast, reliable, and maintainable\n"
            \o "</perspective_guidelines>"],
    CodeGen |->
        [name |-> "CodeGen",
         prompt |-> "Generate minimal diffs and small, focused modules",
         systemPrompt |->
            "You are the CodeGen expert. Your role is to generate clean, minimal code implementations.\n"
            \o "\n"
            \o "<expert_role>\n"
            \o "You write code that is easy to review, focused on single responsibilities, and follows established patterns. You create minimal diffs that are safe to merge.\n"
            \o "</expert_role>\n"
            \o "\n"
            \o "<perspective_guidelines>\n"
            \o "- Generate small, focused modules with single responsibilities\n"
            \o "- Create minimal diffs that don't touch unrelated code\n"
            \o "- Follow existing code patterns and conventions\n"
            \o "- Write self-documenting code with clear names\n"
            \o "- Prioritize readability and maintainability\n"
            \o "</perspective_guidelines>"],
    DXEnforcer |->
        [name |-> "DXEnforcer",
         prompt |-> "Enforce naming conventions, folder structure, and TypeScript rules",
         systemPrompt |->
            "You are the DXEnforcer expert. Your role is to ensure developer experience consistency across the codebase.\n"
            \o "\n"
            \o "<expert_role>\n"
            \o "You enforce coding standards, naming conventions, folder structures, and TypeScript configurations. You ensure the codebase remains consistent and navigable.\n"
            \o "</expert_role>\n"
            \o "\n"
            \o "<perspective_guidelines>\n"
            \o "- Enforce consistent naming patterns across files and functions\n"
            \o "- Validate folder structure follows established conventions\n"
            \o "- Check TypeScript configuration and type safety\n"
            \o "- Ensure import/export patterns are consistent\n"
            \o "- Maintain code organization standards\n"
            \o "</perspective_guidelines>"],
    PRWriter |->
        [name |-> "PRWriter",
         prompt |-> "Write concise PR descriptions and migration notes",
         systemPrompt |->
            "You are the PRWriter expert. Your role is to create clear, actionable PR documentation.\n"
            \o "\n"
            \o "<expert_role>\n"
            \o "You write PR descriptions that help reviewers understand the change, its impact, and how to test it. You create migration notes when needed.\n"
            \o "</expert_role>\n"
            \o "\n"
            \o "<perspective_guidelines>\n"
            \o "- Write concise summaries focused on the change impact\n"
            \o "- Include testing instructions for reviewers\n"
            \o "- Document any breaking changes or migration steps\n"
            \o "- Highlight areas that need careful review\n"
            \o "- Link to relevant issues or design documents\n"
            \o "</perspective_guidelines>"]
  ]

\* getDesignPhilosopherMode(mode).  The en dash of "3-5" and the capital delta
\* of "DeltaL<2" are written in ASCII.
getDesignPhilosopherMode(mode) ==
    IF mode \in {"pr", "design_review"}
    THEN "You are the DesignPhilosopher operating in \"principles mode\".\n"
         \o "\n"
         \o "<strict_constraints>\n"
         \o "- Do NOT reference history, movements, or philosophy\n"
         \o "- Output must be concise and actionable\n"
         \o "- Deliver 3-5 design principles tied to user needs and business goals\n"
         \o "- Prefer statements like \"Use semantic tokens and OKLCH with DeltaL<2 across status colors\" over any narrative\n"
         \o "- Focus on what works, not why it's historically significant\n"
         \o "</strict_constraints>"
    ELSE "You are the DesignPhilosopher operating in \"exploration mode\".\n"
         \o "\n"
         \o "<creative_license>\n"
         \o "- You MAY reference historical contexts when they inspire innovation\n"
         \o "- Connect concepts across disciplines and time periods\n"
         \o "- Explore aesthetic and philosophical dimensions\n"
         \o "- Build narrative around design choices\n"
         \o "- Think expansively about possibilities and meaning\n"
         \o "</creative_license>"

\* selectExpertsForRound(round, mode, context): the lead, then the supporting
\* experts of the focus, the lead not repeated.
selectExpertsForRound(round, mode, task) ==
    LET t == toLowerCaseString(task)
        supporting ==
            CASE round.focus = "constraints" -> <<"EffectArchitect", "DXEnforcer">>
              [] round.focus = "architecture_plan" -> <<"TestEngineer", "CodeGen">>
              [] round.focus = "tests_first" -> <<"EffectArchitect", "DXEnforcer">>
              [] round.focus = "impl" -> <<"EffectArchitect", "TestEngineer">>
              [] round.focus = "consistency_gate" -> <<"PRWriter">>
              [] round.focus = "pr_summary" -> <<"DXEnforcer">>
              [] round.focus = "design_principles" -> <<"SystemsTheorist", "ExperienceArchitect">>
              [] round.focus = "concepts" ->
                    <<"ExperienceArchitect", "TechnicalPoet", "ColorTheorist">>
              [] round.focus = "experience_goals" -> <<"DesignPhilosopher", "SystemsTheorist">>
              [] round.focus = "technical_bridge" -> <<"EffectArchitect", "SystemsTheorist">>
              [] OTHER ->
                    IF includes(t, "visual") \/ includes(t, "ui")
                    THEN <<"ColorTheorist", "ExperienceArchitect">>
                    ELSE IF includes(t, "data") \/ includes(t, "api")
                    THEN <<"DataPhilosopher", "EffectArchitect">>
                    ELSE <<"SystemsTheorist", "ExperienceArchitect">>
        IsNotLead(e) == e # round.lead
    IN  <<round.lead>> \o SelectSeq(supporting, IsNotLead)

\* Object.entries(currentPhilosophy).map(([key, value]) => `${key}: ${value}`):
\* the philosophy is the sequence of its entries, in insertion order.
PhilosophyLines(currentPhilosophy) ==
    [i \in DOMAIN currentPhilosophy |->
        currentPhilosophy[i].key \o ": " \o currentPhilosophy[i].value]

\* generateRoundPrompt(round, experts, context, currentPhilosophy, mode) for a
\* lead of the catalog, the context with no seeds, constraints or preferences.
generateRoundPrompt(round, experts, task, currentPhilosophy, mode) ==
    LET leadExpert == conceptualExperts[round.lead]
        IsSupporting(e) == e # round.lead /\ e \in DOMAIN conceptualExperts
        names == SelectSeq(experts, IsSupporting)
        supportingExperts == [i \in DOMAIN names |-> conceptualExperts[names[i]]]
        baseSystemPrompt ==
            IF round.lead = "DesignPhilosopher" THEN getDesignPhilosopherMode(mode)
            ELSE leadExpert.systemPrompt
        systemPrompt ==
            baseSystemPrompt \o "\n"
            \o "\n"
            \o "<collaboration_context>\n"
            \o "You are participating in a multi-expert collaborative discussion. You are the LEAD expert for this round, but you must also simulate the perspectives of supporting experts to create a comprehensive synthesis.\n"
            \o "\n"
            \o "Mode: " \o toUpperCaseString(mode) \o "\n"
            \o "Current Focus: " \o round.focus \o "\n"
            \o "\n"
            \o "Supporting experts in this discussion:\n"
            \o JoinStrings([i \in DOMAIN supportingExperts |->
                               "- " \o supportingExperts[i].name \o ": "
                               \o supportingExperts[i].prompt], "\n") \o "\n"
            \o "</collaboration_context>\n"
            \o "\n"
            \o "<output_instructions>\n"
            \o "Structure your response with clear sections:\n"
            \o "1. **Lead Perspective**: Your initial expert proposal as " \o leadExpert.name \o "\n"
            \o "2. **Supporting Insights**: Brief critiques/refinements from each supporting expert  \n"
            \o "3. **Synthesis**: A cohesive final insight that weaves all perspectives together\n"
            \o "\n"
            \o (IF mode = "explore"
                THEN "Focus on depth, creativity, and innovative possibilities. The synthesis should be inspirational and expansive."
                ELSE "Focus on practical, actionable insights. The synthesis should be concrete and implementable.")
            \o "\n"
            \o "</output_instructions>\n"
            \o "\n"
            \o "<persistence>\n"
            \o "- You are an expert agent - provide a complete, thorough analysis before concluding\n"
            \o "- Never ask for clarification - make reasonable assumptions and document them\n"
            \o "- Only stop when you've delivered a comprehensive synthesis that addresses the focus area\n"
            \o "</persistence>"
        userPrompt ==
            "<task_context>\n"
            \o "Task: " \o task \o "\n"
            \o "Output Type: general\n"
            \o "Mode: " \o mode \o "\n"
            \o "Current Focus: " \o round.focus \o "\n"
            \o "</task_context>\n"
            \o "\n"
            \o "<previous_insights>\n"
            \o (IF Len(currentPhilosophy) > 0
                THEN JoinStrings(PhilosophyLines(currentPhilosophy), "\n")
                ELSE "None yet - this is the first round") \o "\n"
            \o "</previous_insights>\n"
            \o "\n"
            \o "<inspiration_seeds>\n"
            \o "No previous patterns found\n"
            \o "</inspiration_seeds>\n"
            \o "\n"
            \o "<constraints>\n"
            \o "{}\n"
            \o "</constraints>\n"
            \o "\n"
            \o "<preferences>\n"
            \o "{}\n"
            \o "</preferences>\n"
            \o "\n"
            \o "Generate a comprehensive expert discussion focused on **" \o round.focus
            \o "** for this " \o mode \o " task."
    IN  [systemPrompt |-> systemPrompt, userPrompt |-> userPrompt]

\* ---- inputs of the round prompt ----
\* The rounds of the tables of both variants, and a round of the
\* DesignPhilosopher on a focus that selectExpertsForRound does not list.
PromptRounds ==
    UNION {Range(roundsByMode[m]) : m \in Modes}
    \cup UNION {Range(ExtendedRoundTable[m]) : m \in Modes}
    \cup {[focus |-> "historical_grounding", lead |-> "DesignPhilosopher"]}

PromptTasks == {"Explore the history of UI", "build a data api", "review the cli"}

PromptPhilosophies ==
    {<<>>, <<[key |-> "concepts", value |-> "calm"]>>}

NoPrompt ==
    [round |-> [focus |-> "", lead |-> ""], mode |-> "", task |-> "", experts |-> <<>>,
     philosophy |-> <<>>, outcome |-> "", systemPrompt |-> "", userPrompt |-> ""]

PromptInit == prompt = NoPrompt

\* One generateRoundPrompt call with the experts selectExpertsForRound gives,
\* as the mode-test harness makes it: it throws for a lead that is not in the
\* catalog.
GenerateRoundPrompt ==
    /\ \E round \in PromptRounds, mode \in Modes, task \in PromptTasks,
          philosophy \in PromptPhilosophies :
          LET experts == selectExpertsForRound(round, mode, task)
              call == [NoPrompt EXCEPT !.round = round, !.mode = mode, !.task = task,
                                       !.experts = experts, !.philosophy = philosophy]
          IN  IF round.lead \notin DOMAIN conceptualExperts
              THEN prompt' = [call EXCEPT !.outcome = "threw"]
              ELSE LET result == generateRoundPrompt(round, experts, task, philosophy, mode)
                   IN  prompt' = [call EXCEPT !.outcome = "built",
                                              !.systemPrompt = result.systemPrompt,
                                              !.userPrompt = result.userPrompt]
    /\ UNCHANGED <<modeVars, trackVars, factoryVars, memoryVars, fileVars, runVars, planVars, selectVars>>

-----------------------------------------------------------------------------
(* The expert registry with dynamic experts: selectExperts.                *)

\* JSON.parse(response.content): the value a reply parses to.  kind is
\* "unparseable" when JSON.parse throws, else "null", "array" (with its
\* items) or "object" (with its properties).
Parsed(kind, fields, items) == [kind |-> kind, fields |-> fields, items |-> items]

Unparseable == Parsed("unparseable", EmptyMap, <<>>)

JsonNull == Parsed("null", EmptyMap, <<>>)

JsonArray(items) == Parsed("array", EmptyMap, items)

JsonObject(fields) == Parsed("object", fields, <<>>)

\* An item of a parsed array: a string, or a number.
JsonString(text) == [kind |-> "string", text |-> text]

JsonNumber(text) == [kind |-> "number", text |-> text]

\* analyzeTask: the value returned in the catch clause
DefaultAnalysis ==
    JsonObject([domains |-> <<"general">>, technologies |-> <<>>,
                complexity |-> "moderate", novelty |-> "standard"])

\* analyzeTask, after the provider's reply: try { return JSON.parse(content) }
\* catch { return the default }
analyzeTask(reply) ==
    IF reply.kind = "unparseable" THEN DefaultAnalysis ELSE reply

\* value[property] is there: reading a property of null throws, an array or
\* an object without the property gives undefined.
HasProperty(value, property) ==
    value.kind = "object" /\ property \in DOMAIN value.fields

\* analysis.complexity, analysis.novelty: the property, "" standing for undefined
TextProperty(value, property) ==
    IF HasProperty(value, property) THEN value.fields[property] ELSE ""

\* ExpertRegistry.staticConceptualExperts: the names in the order of the
\* object literal, and the domains of each.
ConceptualNames ==
    <<"DesignPhilosopher", "ExperienceArchitect", "SystemsTheorist", "TechnicalPoet",
      "MasterReviewer">>

staticConceptualExperts ==
    [DesignPhilosopher |-> <<"visual", "interaction", "system">>,
     ExperienceArchitect |-> <<"emotional", "workflow", "usability">>,
     SystemsTheorist |-> <<"architecture", "data", "complexity">>,
     TechnicalPoet |-> <<"integration", "abstraction", "elegance">>,
     MasterReviewer |-> <<"synthesis", "optimization", "quality", "coherence">>]

\* ExpertRegistry.staticTechnicalExperts
staticTechnicalExperts ==
    [React |-> <<"ReactArchitect", "HooksPhilosopher", "ComponentComposer">>,
     Effect |-> <<"EffectArchitect", "EffectPipeline", "ErrorTaxonomist",
                  "ServiceLayerDesigner">>,
     JSON |-> <<"SchemaDesigner", "DataModeler">>,
     CLI |-> <<"CommandGrammar", "UnixPhilosopher">>,
     TypeScript |-> <<"TypeWizard", "GenericSpecialist">>,
     Database |-> <<"DataArchitect", "QueryOptimizer">>,
     API |-> <<"RESTPhilosopher", "GraphQLArchitect", "WebSocketStrategist">>]

\* The keys every object literal inherits from Object.prototype: looked up
\* in the table they give a function, which is truthy and not iterable.
InheritedKeys == {"constructor", "toString", "valueOf", "hasOwnProperty"}

RECURSIVE AddEach(_, _)
\* relevantExperts.add(name) for each name in turn: a Set keeps the order of
\* first insertion.
AddEach(list, names) ==
    IF names = <<>> THEN list
    ELSE AddEach(IF Head(names) \in Range(list) THEN list ELSE Append(list, Head(names)),
                 Tail(names))

\* expert.domains.some(d => domain.includes(d) || d.includes(domain))
MatchesDomain(domain, expertName) ==
    \E i \in DOMAIN staticConceptualExperts[expertName] :
        LET d == staticConceptualExperts[expertName][i]
        IN  includes(domain, d) \/ includes(d, domain)

RECURSIVE MatchDomains(_, _)
\* for (const domain of analysis.domains) for (const [expertName, expert] of
\* Object.entries(staticConceptualExperts)) ...
MatchDomains(relevantExperts, domains) ==
    IF domains = <<>> THEN relevantExperts
    ELSE LET matching == SelectSeq(ConceptualNames,
                                   LAMBDA name : MatchesDomain(Head(domains), name))
         IN  MatchDomains(AddEach(relevantExperts, matching), Tail(domains))

\* Array.prototype.slice(0, n)
SliceTo(array, n) == SubSeq(array, 1, IF Len(array) < n THEN Len(array) ELSE n)

\* selectStaticConceptualExperts(analysis): the names of the experts
\* returned, or the TypeError of iterating analysis.domains when the analysis
\* is null or has no domains.
selectStaticConceptualExperts(analysis) ==
    IF ~HasProperty(analysis, "domains") THEN [threw |-> TRUE, experts |-> <<>>]
    ELSE LET matched == MatchDomains(<<>>, analysis.fields.domains)
             complex == IF TextProperty(analysis, "complexity") = "complex"
                        THEN AddEach(matched, <<"SystemsTheorist">>) ELSE matched
             experts == IF TextProperty(analysis, "novelty") = "innovative"
                        THEN AddEach(complex, <<"DesignPhilosopher", "TechnicalPoet">>)
                        ELSE complex
             one == IF Len(experts) < 2 THEN Append(experts, "ExperienceArchitect")
                    ELSE experts
             two == IF Len(experts) < 2 /\ Len(one) < 2
                    THEN Append(one, "DesignPhilosopher") ELSE one
         IN  [threw |-> FALSE, experts |-> SliceTo(two, 5)]

RECURSIVE TechnologyExperts(_)
\* for (const tech of analysis.technologies) for (const expertName of
\* staticTechnicalExperts[tech] || []) experts.push({...})
TechnologyExperts(technologies) ==
    IF technologies = <<>> THEN <<>>
    ELSE LET tech == Head(technologies)
             techExperts == IF tech \in DOMAIN staticTechnicalExperts
                            THEN staticTechnicalExperts[tech] ELSE <<>>
         IN  [i \in DOMAIN techExperts |->
                 [name |-> techExperts[i], domains |-> <<toLowerCaseString(tech)>>,
                  prompt |-> "Technical expert in " \o tech]]
             \o TechnologyExperts(Tail(technologies))

\* The experts of the Effect group, as the default adds them.
EffectExperts ==
    [i \in DOMAIN staticTechnicalExperts["Effect"] |->
        [name |-> staticTechnicalExperts["Effect"][i], domains |-> <<"effect", "functional">>,
         prompt |-> "Effect ecosystem expert"]]

\* selectStaticTechnicalExperts(analysis): the experts returned, or the
\* TypeError of iterating analysis.technologies when there is none, or of
\* iterating the function an inherited key gives.
selectStaticTechnicalExperts(analysis) ==
    IF ~HasProperty(analysis, "technologies") THEN [threw |-> TRUE, experts |-> <<>>]
    ELSE LET technologies == analysis.fields.technologies
         IN  IF Range(technologies) \cap InheritedKeys # {}
             THEN [threw |-> TRUE, experts |-> <<>>]
             ELSE [threw |-> FALSE,
                   experts |-> SliceTo(TechnologyExperts(technologies)
                                       \o (IF "TypeScript" \in Range(technologies)
                                              \/ Len(technologies) = 0
                                           THEN EffectExperts ELSE <<>>), 6)]

\* identifyMissingExpertise, after the provider's reply:
\* Array.isArray(missing) ? missing : [], and [] when JSON.parse throws
identifyMissingExpertise(reply) ==
    IF reply.kind = "array" THEN reply.items ELSE <<>>

\* The expert createDynamicExperts builds from the agent createAgent returns
\* for an area.
DynamicExpert(area) ==
    [name |-> area \o " specialist", domains |-> <<area>>, type |-> "dynamic"]

RECURSIVE createDynamicExperts(_, _, _, _)
\* createDynamicExperts(task, missingAreas, expertType) over the registry's
\* dynamicExperts map: for each area the cached expert, or a new one from
\* agentFactory.createAgent (agentMade: whether createAgent gives an agent).
\* getCapabilitiesForArea calls area.toLowerCase(), which throws for an area
\* that is not a string.  The result holds how the call ends, the experts and
\* the map afterwards.
createDynamicExperts(cache, missingAreas, expertType, agentMade) ==
    IF missingAreas = <<>> THEN [outcome |-> "returned", experts |-> <<>>, cache |-> cache]
    ELSE LET area == Head(missingAreas)
             expertKey == expertType \o "-" \o area.text
         IN  IF expertKey \in DOMAIN cache
             THEN LET rest == createDynamicExperts(cache, Tail(missingAreas), expertType,
                                                   agentMade)
                  IN  [rest EXCEPT !.experts = <<cache[expertKey]>> \o @]
             ELSE IF area.kind # "string"
             THEN [outcome |-> "died", experts |-> <<>>, cache |-> cache]
             ELSE IF ~agentMade
             THEN [outcome |-> "failed", experts |-> <<>>, cache |-> cache]
             ELSE LET expert == DynamicExpert(area.text)
                      rest == createDynamicExperts((expertKey :> expert) @@ cache,
                                                   Tail(missingAreas), expertType, agentMade)
                  IN  [rest EXCEPT !.experts = <<expert>> \o @]

NoGroup == [conceptual |-> <<>>, technical |-> <<>>, dynamic |-> <<>>]

\* One half of selectExperts: the static selection, identifyMissingExpertise
\* and createDynamicExperts for one expert type.  missing is what the
\* provider call of identifyMissingExpertise ends in.
SelectFor(cache, expertType, static, missing, agentMade) ==
    IF static.threw THEN [outcome |-> "died", experts |-> <<>>, cache |-> cache]
    ELSE IF ~missing.ok THEN [outcome |-> "failed", experts |-> <<>>, cache |-> cache]
    ELSE createDynamicExperts(cache, identifyMissingExpertise(missing.reply), expertType,
                              agentMade)

\* selectExperts(task, mode) over the registry's dynamicExperts map.
\* analyzed, missingConceptual, missingTechnical: what the provider calls of
\* analyzeTask and identifyMissingExpertise end in (ok or not, and the parsed
\* reply).  The outcome is "returned", "failed" (the Error of a provider or
\* factory call) or "died" (a TypeError thrown inside the generator).
selectExperts(cache, mode, analyzed, missingConceptual, missingTechnical, agentMade) ==
    IF ~analyzed.ok THEN [outcome |-> "failed", group |-> NoGroup, cache |-> cache]
    ELSE LET taskAnalysis == analyzeTask(analyzed.reply)
             withConceptual == mode \in {"conceptual", "both"}
             withTechnical == mode \in {"technical", "both"}
             conceptual == IF withConceptual THEN selectStaticConceptualExperts(taskAnalysis)
                           ELSE [threw |-> FALSE, experts |-> <<>>]
             first == IF withConceptual
                      THEN SelectFor(cache, "conceptual", conceptual, missingConceptual,
                                     agentMade)
                      ELSE [outcome |-> "returned", experts |-> <<>>, cache |-> cache]
             technical == IF withTechnical THEN selectStaticTechnicalExperts(taskAnalysis)
                          ELSE [threw |-> FALSE, experts |-> <<>>]
             second == IF withTechnical
                       THEN SelectFor(first.cache, "technical", technical, missingTechnical,
                                      agentMade)
                       ELSE [outcome |-> "returned", experts |-> <<>>, cache |-> first.cache]
         IN  IF first.outcome # "returned"
             THEN [outcome |-> first.outcome, group |-> NoGroup, cache |-> first.cache]
             ELSE IF second.outcome # "returned"
             THEN [outcome |-> second.outcome, group |-> NoGroup, cache |-> second.cache]
             ELSE [outcome |-> "returned",
                   group |-> [conceptual |-> conceptual.experts,
                              technical |-> technical.experts,
                              dynamic |-> first.experts \o second.experts],
                   cache |-> second.cache]

\* ---- bounds and inputs of the selection ----
MaxDomains == 2

MaxTechnologies == 3

\* The domains of an analysis: one of ExperienceArchitect alone, one of two
\* experts, one of one other expert each, and one of none.
AnalyzedDomains == {"emotional", "data", "visual", "elegance", "general"}

AnalyzedTechnologies == {"TypeScript", "Effect", "API", "Rust", "constructor"}

Complexities == {"simple", "moderate", "complex"}

Novelties == {"standard", "unique", "innovative"}

\* The analyses the conceptual selection is applied to.
ConceptualAnalyses ==
    {JsonObject([domains |-> domains, technologies |-> <<>>, complexity |-> complexity,
                 novelty |-> novelty]) :
        domains \in SeqsUpTo(AnalyzedDomains, MaxDomains), complexity \in Complexities,
        novelty \in Novelties}

\* The analyses the technical selection is applied to.
TechnicalAnalyses ==
    {JsonObject([domains |-> <<"general">>, technologies |-> technologies,
                 complexity |-> "moderate", novelty |-> "standard"]) :
        technologies \in SeqsUpTo(AnalyzedTechnologies, MaxTechnologies)}

\* The replies of the task analyzer: text that does not parse, JSON of
\* another shape, and analyses of the expected shape.
AnalyzerReplies ==
    {Unparseable, JsonNull, JsonArray(<<>>), JsonObject(EmptyMap),
     JsonObject([domains |-> <<"data">>]),
     JsonObject([technologies |-> <<"Rust">>]),
     JsonObject([domains |-> <<"emotional">>, technologies |-> <<"Rust">>,
                 complexity |-> "complex", novelty |-> "standard"]),
     JsonObject([domains |-> <<"data", "visual">>, technologies |-> <<"TypeScript">>,
                 complexity |-> "moderate", novelty |-> "innovative"])}

\* The replies to the missing-expertise request.
MissingReplies ==
    {Unparseable, JsonNull, JsonArray(<<>>),
     JsonArray(<<JsonString("security")>>), JsonArray(<<JsonNumber("7")>>)}

\* A provider call that fails, or is not made.
NoReply == [ok |-> FALSE, reply |-> Unparseable]

\* What a provider call ends in: its failure, or a reply.
Responses(replies) == {NoReply} \cup [ok : {TRUE}, reply : replies]

NoSelection ==
    [op |-> "none", mode |-> "", analyzed |-> NoReply,
     missingConceptual |-> NoReply, missingTechnical |-> NoReply,
     outcome |-> "", group |-> NoGroup]

SelectInit ==
    /\ dynamicExperts = EmptyMap
    /\ selection = NoSelection

\* One selectExperts call.  identifyMissingExpertise is called for the
\* expert types of the mode only.
SelectExperts ==
    /\ \E mode \in {"conceptual", "technical", "both"},
          analyzed \in Responses(AnalyzerReplies),
          missingConceptual \in Responses(MissingReplies),
          missingTechnical \in Responses(MissingReplies),
          agentMade \in BOOLEAN :
          /\ mode = "technical" => missingConceptual = NoReply
          /\ mode = "conceptual" => missingTechnical = NoReply
          /\ LET result == selectExperts(dynamicExperts, mode, analyzed,
                                         missingConceptual, missingTechnical, agentMade)
             IN  /\ selection' =
                        [op |-> "selectExperts", mode |-> mode, analyzed |-> analyzed,
                         missingConceptual |-> missingConceptual,
                         missingTechnical |-> missingTechnical,
                         outcome |-> result.outcome, group |-> result.group]
                 /\ dynamicExperts' = result.cache
    /\ UNCHANGED <<modeVars, trackVars, factoryVars, memoryVars, fileVars, runVars,
                   promptVars, planVars>>

\* The conceptual selection applied to one analysis.
SelectStaticConceptualExperts ==
    /\ \E analysis \in ConceptualAnalyses :
          LET result == selectStaticConceptualExperts(analysis)
          IN  selection' = [NoSelection EXCEPT
                  !.op = "selectStaticConceptualExperts",
                  !.analyzed = [ok |-> TRUE, reply |-> analysis],
                  !.outcome = IF result.threw THEN "died" ELSE "returned",
                  !.group = [NoGroup EXCEPT !.conceptual = result.experts]]
    /\ UNCHANGED dynamicExperts
    /\ UNCHANGED <<modeVars, trackVars, factoryVars, memoryVars, fileVars, runVars,
                   promptVars, planVars>>

\* The technical selection applied to one analysis.
SelectStaticTechnicalExperts ==
    /\ \E analysis \in TechnicalAnalyses :
          LET result == selectStaticTechnicalExperts(analysis)
          IN  selection' = [NoSelection EXCEPT
                  !.op = "selectStaticTechnicalExperts",
                  !.analyzed = [ok |-> TRUE, reply |-> analysis],
                  !.outcome = IF result.threw THEN "died" ELSE "returned",
                  !.group = [NoGroup EXCEPT !.technical = result.experts]]
    /\ UNCHANGED dynamicExperts
    /\ UNCHANGED <<modeVars, trackVars, factoryVars, memoryVars, fileVars, runVars,
                   promptVars, planVars>>

-----------------------------------------------------------------------------
(* Specifications: one per component, the other components at rest.       *)

NextMode == QuickInferMode \/ InferModeWithAI

InitMode == ModeInit /\ TrackInit /\ FactoryInit /\ MemoryInit /\ FilesInit /\ RunInit
    /\ PromptInit /\ PlanInit /\ SelectInit

SpecMode == InitMode /\ [][NextMode]_vars

\* The rule-based fallback alone, over every task text of the bound.
NextQuickMode == QuickInferMode

SpecQuickMode == InitMode /\ [][NextQuickMode]_vars

NextTrack == TrackExpertInteraction \/ GetExpertInteractions

InitTrack == ModeIdle /\ TrackInit /\ FactoryInit /\ MemoryInit /\ FilesInit /\ RunInit
    /\ PromptInit /\ PlanInit /\ SelectInit

SpecTrack == InitTrack /\ [][NextTrack]_vars

NextFactory == Tick \/ CreateAgent \/ FindOrCreateAgents \/ EvolveAgent \/ Construct

InitFactory == ModeIdle /\ TrackInit /\ FactoryInit /\ MemoryInit /\ FilesInit /\ RunInit
    /\ PromptInit /\ PlanInit /\ SelectInit

\* The agent store over its life, with the factories constructed over it in turn.
SpecFactory == InitFactory /\ [][NextFactory]_vars

NextMemory == TickSecond \/ StoreSuccess \/ FindRelevantSuccesses

InitMemory == ModeIdle /\ TrackInit /\ FactoryInit /\ MemoryInit /\ FilesInit /\ RunInit
    /\ PromptInit /\ PlanInit /\ SelectInit

\* The memory store under any sequence of calls.
SpecMemory == InitMemory /\ [][NextMemory]_vars

NextFiles == SaveOutputMkdir \/ SaveOutputWrite

InitFiles == ModeIdle /\ TrackInit /\ FactoryInit /\ MemoryInit /\ FilesInit /\ RunInit
    /\ PromptInit /\ PlanInit /\ SelectInit

\* The output writer under any sequence of saveOutput calls.
SpecFiles == InitFiles /\ [][NextFiles]_vars

NextRun ==
    \/ RunStart \/ RunIssue \/ QuestionAnswered \/ MemoryQueried \/ RoundAnswered
    \/ FeedbackConfirmed \/ FeedbackEntered \/ SpecTranslated \/ OutputFormatted
    \/ DirectoryMade \/ FileWritten \/ SuccessStored \/ SummaryDisplayed

InitRun == ModeIdle /\ TrackInit /\ FactoryInit /\ MemoryInit /\ FilesInit /\ RunInit
    /\ PromptInit /\ PlanInit /\ SelectInit

\* Runs of the orchestrator, one after the other, over the same services.
SpecRun == InitRun /\ [][NextRun]_vars

NextPrompt == GenerateRoundPrompt

InitPrompt ==
    ModeIdle /\ TrackInit /\ FactoryInit /\ MemoryInit /\ FilesInit /\ RunInit
    /\ PromptInit /\ PlanInit /\ SelectInit

\* The registry's round prompt, for every round, mode and task of the bound.
SpecPrompt == InitPrompt /\ [][NextPrompt]_vars

NextPlan == PlanRoundsBase \/ PlanRounds

InitPlan ==
    ModeIdle /\ TrackInit /\ FactoryInit /\ MemoryInit /\ FilesInit /\ RunInit
    /\ PromptInit /\ PlanInit /\ SelectInit

\* The round planner under any sequence of calls of both variants.
SpecPlan == InitPlan /\ [][NextPlan]_vars

NextAnalysis == AnalyzeTask

InitAnalysis ==
    ModeIdle /\ TrackInit /\ FactoryInit /\ MemoryInit /\ FilesInit /\ RunInit
    /\ PromptInit /\ PlanInit /\ SelectInit

\* The start of a run, up to the clarifying questions, for every analyzed prompt.
SpecAnalysis == InitAnalysis /\ [][NextAnalysis]_vars

NextSelect == SelectExperts

InitSelect ==
    ModeIdle /\ TrackInit /\ FactoryInit /\ MemoryInit /\ FilesInit /\ RunInit
    /\ PromptInit /\ PlanInit /\ SelectInit

\* The registry's selectExperts under any sequence of calls.
SpecSelect == InitSelect /\ [][NextSelect]_vars

NextConceptual == SelectStaticConceptualExperts

\* The conceptual selection, for every analysis of the bound.
SpecConceptual == InitSelect /\ [][NextConceptual]_vars

NextTechnical == SelectStaticTechnicalExperts

\* The technical selection, for every analysis of the bound.
SpecTechnical == InitSelect /\ [][NextTechnical]_vars

-----------------------------------------------------------------------------
(* Claims.                                                                 *)

\* ---- claims about mode inference ----

\* The provider reply is not exactly one of the three modes once trimmed,
\* lower-cased and stripped of quotes.
ReplyIsNoMode(response) ==
    response.ok /\ \A m \in Modes : NormalizeReply(response.content) # ModeText(m)

\* C2: inferModeWithAI never ends in an error; when the provider call fails, or
\* its reply (trimmed, lower-cased, quotes stripped) is not exactly pr,
\* design_review or explore, the result is the rule-based fallback for the task;
\* the result is always one of the three modes.
C2_InferModeNeverFails ==
    mResult # "none" =>
        /\ mResult \in Modes
        /\ (~mResponse.ok \/ ReplyIsNoMode(mResponse)) => mResult = quickInferMode(mTask)

\* The maximal runs of word characters of a text, lower-cased.
WordsOf(text) ==
    LET t == toLowerCase(text)
    IN  { SubSeq(t, i, j) : <<i, j>> \in
            { p \in (1..Len(t)) \X (1..Len(t)) :
                /\ p[1] <= p[2]
                /\ \A k \in p[1]..p[2] : IsWordChar(t[k])
                /\ (p[1] = 1 \/ ~IsWordChar(t[p[1] - 1]))
                /\ (p[2] = Len(t) \/ ~IsWordChar(t[p[2] + 1])) } }

HasWord(text, keywords) == WordsOf(text) \cap keywords # {}

ContainsAny(text, keywords) == \E k \in keywords : Includes(toLowerCase(text), k)

CallsFor(expertName, round) ==
    SelectSeq(trackLog, LAMBDA c : c.expertName = expertName /\ c.round = round)

RECURSIVE SumOfCallCounts(_)
SumOfCallCounts(calls) ==
    IF calls = <<>> THEN 0 ELSE Head(calls).callCount + SumOfCallCounts(Tail(calls))

RECURSIVE InsightsInOrder(_)
InsightsInOrder(calls) ==
    IF calls = <<>> THEN <<>> ELSE Head(calls).insights \o InsightsInOrder(Tail(calls))

RECURSIVE LatestSuppliedId(_)
LatestSuppliedId(calls) ==
    IF calls = <<>> THEN Undefined
    ELSE IF calls[Len(calls)].responseId # Undefined THEN calls[Len(calls)].responseId
    ELSE LatestSuppliedId(SubSeq(calls, 1, Len(calls) - 1))

RecordsOf(expertName, round) ==
    {i \in DOMAIN expertInteractions :
        expertInteractions[i].expertName = expertName /\ expertInteractions[i].round = round}

\* C4: after any sequence of trackExpertInteraction calls the list holds at
\* most one record per (expertName, round) pair (one exactly when the pair was
\* tracked); its callCount is the sum of the callCounts of the pair's calls, its
\* insights are their insight lists concatenated in call order, and its
\* responseId is that of the latest call that supplied one.
C4_OneRecordPerPair ==
    \A expertName \in TrackedExperts, round \in TrackedRounds :
        LET calls == CallsFor(expertName, round)
            recs == RecordsOf(expertName, round)
        IN  /\ Cardinality(recs) = (IF calls = <<>> THEN 0 ELSE 1)
            /\ \A i \in recs :
                  /\ expertInteractions[i].callCount = SumOfCallCounts(calls)
                  /\ expertInteractions[i].insights = InsightsInOrder(calls)
                  /\ expertInteractions[i].responseId = LatestSuppliedId(calls)

\* C4 witness: a pair tracked twice, the first call supplying a response
\* id and the second none, while another pair holds its own record.
C4_Witness ==
    /\ Len(expertInteractions) = 2
    /\ \E expertName \in TrackedExperts, round \in TrackedRounds :
          LET calls == CallsFor(expertName, round)
          IN  /\ Len(calls) = 2
              /\ calls[1].responseId # Undefined
              /\ calls[2].responseId = Undefined
              /\ calls[1].insights # calls[2].insights

\* C21: the list a getExpertInteractions call returned, with the callCount,
\* insights and responseId of each of its records, is not changed by a later
\* trackExpertInteraction call, whether the call adds a record or updates
\* one.
C21_SnapshotUnchanged ==
    snapshot.taken => Content(snapshot) = snapshot.atReturn

-----------------------------------------------------------------------------
(* Claims about the dynamic agent factory.                                 *)

\* C1: within one factory instance, createAgent calls with the same domain and
\* the same capabilities, given in any order, all return the agent of the one
\* row the instance inserted for that identity: the call that inserts the row
\* leaves its usage_count at 0, and every later call returns the same id and
\* adds one to the usage_count it found, so that a second call directly after
\* the first leaves usage_count at 1.
C1_SameAgentOnSecondCall ==
    /\ \A id1, id2 \in DOMAIN createdFor :
          createdFor[id1] = createdFor[id2] => id1 = id2
    /\ DOMAIN createdFor \subseteq DOMAIN dynamic_agents
    /\ (fLast.op = "createAgent" /\ fLast.outcome \in {"hit", "created"}) =>
          /\ fLast.returned \in DOMAIN createdFor
          /\ createdFor[fLast.returned] = fLast.key
          /\ fLast.outcome = "created" =>
                dynamic_agents[fLast.returned].usage_count = 0
          /\ fLast.outcome = "hit" =>
                dynamic_agents[fLast.returned].usage_count = fLast.usageBefore + 1

\* C1 witness: the two capabilities were asked for a second time, directly
\* after the call that created their agent, and its row counts one use.
C1_Witness ==
    /\ fLast.op = "createAgent" /\ fLast.outcome = "hit"
    /\ fLast.key = "ux-data-viz"
    /\ fLast.usageBefore = 0
    /\ dynamic_agents[fLast.returned].usage_count = 1
    /\ Cardinality(DOMAIN dynamic_agents) = 1

\* C5: every evolveAgent call that finds its agent, whose row holds
\* usage_count = n and success_rate = r, leaves the row at usage_count = n + 1
\* and success_rate = (r * n + s) / (n + 1), s being 1 for success = true and 0
\* otherwise, whether or not improvements are supplied and whatever becomes of
\* them; a row at (3, 1/2) goes to (4, 5/8) on success.
C5_RunningMean ==
    (fLast.op = "evolveAgent" /\ fLast.outcome # "not found") =>
        LET n == fLast.usageBefore
            r == fLast.rateBefore
            s == IF fLast.success THEN 1 ELSE 0
            after == dynamic_agents[fLast.agentId]
        IN  /\ after.usage_count = n + 1
            /\ after.success_rate[2] > 0
            /\ after.success_rate[1] * (r[2] * (n + 1))
                  = (r[1] * n + s * r[2]) * after.success_rate[2]
            /\ (n = 3 /\ r = <<1, 2>> /\ fLast.success) => after.success_rate = <<5, 8>>

\* C5 witness: a call with success = true and no improvements, on a row at
\* (3, 1/2), has left it at (4, 5/8).
C5_Witness ==
    /\ fLast.op = "evolveAgent" /\ fLast.outcome = "unchanged agent"
    /\ fLast.success
    /\ fLast.usageBefore = 3 /\ fLast.rateBefore = <<1, 2>>
    /\ dynamic_agents[fLast.agentId].usage_count = 4
    /\ dynamic_agents[fLast.agentId].success_rate = <<5, 8>>

\* C12: a repeat createAgent request for an identity whose agent is already
\* persisted returns that agent and only increments its usage_count, adding
\* no row, also on a factory newly constructed over the store: no identity
\* ever has two rows, and a call served from the cache returns the row
\* persisted for the identity asked for, with one use more.
C12_NoDuplicatePersistence ==
    /\ \A id1, id2 \in DOMAIN persistedFor :
          persistedFor[id1] = persistedFor[id2] => id1 = id2
    /\ (fLast.op = "createAgent" /\ fLast.outcome = "hit") =>
          /\ fLast.returned \in DOMAIN persistedFor
          /\ persistedFor[fLast.returned] = fLast.key
          /\ dynamic_agents[fLast.returned].usage_count = fLast.usageBefore + 1

\* C17: after any interleaving of createAgent, findOrCreateAgents and
\* evolveAgent calls every persisted row has 0 <= success_rate <= 1 and
\* usage_count >= 0.
C17_RateAndUsageInRange ==
    \A id \in DOMAIN dynamic_agents :
        LET row == dynamic_agents[id]
        IN  /\ row.success_rate[2] > 0
            /\ 0 <= row.success_rate[1]
            /\ row.success_rate[1] <= row.success_rate[2]
            /\ row.usage_count >= 0

\* C17 witness: a row evolveAgent has just updated, after a success and a
\* failure, stands at a rate strictly between 0 and 1.
C17_Witness ==
    /\ fLast.op = "evolveAgent" /\ fLast.outcome = "unchanged agent"
    /\ fLast.rateBefore = Fraction(1, 1) /\ ~fLast.success
    /\ dynamic_agents[fLast.returned].success_rate = Fraction(1, 2)
    /\ dynamic_agents[fLast.returned].usage_count = 2

\* C22: evolveAgent with an agent id that is not in the factory's cache fails
\* with the not-found error and leaves the cache and every persisted row
\* (the rows there are, their usage_count and success_rate) unchanged.
C22_UnknownAgentChangesNothing ==
    /\ (fLast.op = "evolveAgent" /\ fLast.agentId \notin DOMAIN fLast.cacheBefore
            /\ fLast.outcome = "not found") =>
          /\ dynamic_agents = fLast.rowsBefore
          /\ agentCache = fLast.cacheBefore
    /\ (fLast.op = "evolveAgent" /\ fLast.agentId \notin DOMAIN agentCache) =>
          fLast.outcome = "not found"

\* C22 witness: the call failed on an unknown id while the cache held a
\* created agent under its id and its key, and the store a row that had been
\* used.
C22_Witness ==
    /\ fLast.op = "evolveAgent" /\ fLast.outcome = "not found"
    /\ fLast.agentId = UnknownAgentId
    /\ Cardinality(DOMAIN agentCache) >= 2
    /\ \E id \in DOMAIN dynamic_agents : dynamic_agents[id].usage_count > 0

\* The agent has been evolved: the store holds a version of it that a
\* successful evolveAgent call with improvements inserted.
Evolved(agentId) ==
    \E time \in 1..MaxClock : EvolvedId(agentId, time) \in DOMAIN dynamic_agents

\* C29: after evolveAgent has succeeded with improvements on an agent, a
\* createAgent request for the identity the agent was created under returns
\* the evolved agent, the one with the improved prompt, and not the
\* original: no createAgent call returns from the cache an agent of which
\* the store holds an evolved version.
C29_EvolvedAgentReturned ==
    (fLast.op = "createAgent" /\ fLast.outcome = "hit") =>
        /\ ~Evolved(fLast.returned)
        /\ (\E id \in DOMAIN createdFor : createdFor[id] = fLast.key /\ Evolved(id)) =>
              agentCache[fLast.returned].prompt = "improved"

-----------------------------------------------------------------------------
(* Claims about the memory store.                                          *)

\* The words longer than 3 characters that two task texts share, lower-cased.
SharedWords(task1, task2) == Range(Keywords(task1)) \cap Range(Keywords(task2))

\* The last call was a query that the database served or rejected as written.
QueryMade ==
    /\ memLast.op = "findRelevantSuccesses"
    /\ memLast.outcome # "database failed"

\* C9: a findRelevantSuccesses query whose task shares no word longer than 3
\* characters with any stored task returns the empty list and does not fail,
\* also when the task has no such word at all (the empty prompt).
C9_NoSharedWordGivesEmpty ==
    (QueryMade /\ \A i \in DOMAIN memories :
                     SharedWords(memLast.task, memories[i].task) = {}) =>
        /\ memLast.outcome = "returned"
        /\ memLast.seeds = <<>>

\* C10 as stated: a query whose task shares a word longer than 3 characters
\* with a stored task returns that entry among its results, whatever else is
\* stored.
C10_SharedWordEntryReturned ==
    QueryMade =>
        \A i \in DOMAIN memories :
            SharedWords(memLast.task, memories[i].task) # {} =>
                /\ memLast.outcome = "returned"
                /\ FormatSeed(memories[i]) \in Range(memLast.seeds)

\* The rows the last query's WHERE clause selects.
Selected == {i \in DOMAIN memories : MatchesAny(memories[i].task, Keywords(memLast.task))}

\* The stored task holds, between spaces, a word longer than 3 characters whose
\* capitals are all ASCII letters and whose lower-cased form is a word of the
\* query.
SharesPlainWord(query, stored) ==
    \E w \in Range(Split(stored, " ")) :
        /\ Len(w) > 3
        /\ \A j \in DOMAIN w : ToLowerChar(w[j]) = AsciiLowerChar(w[j])
        /\ toLowerCase(w) \in Range(Keywords(query))

\* C10 amended: a query whose task shares such a word with a stored task
\* returns that entry among its at most three results, provided fewer than
\* three other selected rows carry a timestamp at least as recent as its own.
C10_RecentSharedWordEntryReturned ==
    QueryMade =>
        /\ Len(memLast.rows) <= QueryLimit
        /\ Range(memLast.rows) \subseteq Selected
        /\ \A i \in DOMAIN memories :
              (/\ SharesPlainWord(memLast.task, memories[i].task)
               /\ Cardinality({o \in Selected \ {i} :
                     memories[o].timestamp >= memories[i].timestamp}) < QueryLimit) =>
                  /\ memLast.outcome = "returned"
                  /\ i \in Range(memLast.rows)
                  /\ FormatSeed(memories[i]) \in Range(memLast.seeds)

\* C10 witness: four stored rows share a word with the query; the query
\* returned the second of them with two newer ones, and not the first.
C10_Witness ==
    /\ QueryMade /\ memLast.outcome = "returned"
    /\ Len(memories) = 4
    /\ \A i \in DOMAIN memories : SharesPlainWord(memLast.task, memories[i].task)
    /\ memories[2].timestamp < memories[3].timestamp
    /\ Range(memLast.rows) = {2, 3, 4}

\* The row the last successful storeSuccess call inserted.
NewestRow == Len(memories)

\* C11: storing an entry and then querying with the identical task text,
\* with no other store in between, returns that entry as the first result,
\* for every task text and after any earlier stores.
C11_StoredEntryIsFirst ==
    (QueryMade /\ memories # <<>> /\ memLast.task = memories[NewestRow].task) =>
        /\ memLast.outcome = "returned"
        /\ memLast.rows # <<>>
        /\ memLast.rows[1] = NewestRow
        /\ memLast.seeds[1] = FormatSeed(memories[NewestRow])

\* The tasks of a list of entries or rows, in order.
TasksOf(entries) == [i \in DOMAIN entries |-> entries[i].task]

\* C30: after any sequence of storeSuccess calls of a session, successful or
\* failing, the session list and the rows the session added to the memories
\* table hold the same tasks in the same order; in particular a call whose
\* INSERT fails leaves the session list as it was.  The table is empty when
\* the session starts, so the rows the session added are all its rows.
C30_SessionListMatchesTable ==
    TasksOf(sessionMemory) = TasksOf(memories)

-----------------------------------------------------------------------------
(* Claims about the output writer.                                         *)

\* The text is a timestamp of the file names: 24 characters that start with
\* the four digits of the year and hold no ':' and no '.'.
IsFileTimestamp(text) ==
    /\ Len(text) = 24
    /\ \A i \in 1..4 : text[i] \in Digits
    /\ \A i \in DOMAIN text : text[i] \notin {":", "."}

\* "build_a_cli_tool_"
BuildPrefix ==
    <<"b", "u", "i", "l", "d", "_", "a", "_", "c", "l", "i", "_", "t", "o", "o", "l", "_">>

\* The last saveOutput call wrote the file of task "Build a CLI tool!!".
BuildSaved == save.outcome = "written" /\ save.taskName = BuildTask

\* The file is written only when output/ exists.
WrittenAfterDirectory ==
    /\ save.pc = "directory made" => outputDir
    /\ outputFiles # {} => outputDir

\* C8 as stated: saveOutput for "Build a CLI tool!!" produces the name
\* build_a_cli_tool_<timestamp>.md, the timestamp starting with the year digits
\* and holding no ':' or '.', and writes only after output/ exists.
C8_NameIsPrefixTimestamp ==
    /\ WrittenAfterDirectory
    /\ BuildSaved =>
          LET name == save.filename
          IN  /\ Len(name) > Len(BuildPrefix) + 3
              /\ SubSeq(name, 1, Len(BuildPrefix)) = BuildPrefix
              /\ IsFileTimestamp(SubSeq(name, Len(BuildPrefix) + 1, Len(name) - 3))
              /\ SubSeq(name, Len(name) - 2, Len(name)) = <<".", "m", "d">>

\* C8 amended: saveOutput for "Build a CLI tool!!" produces the name
\* build_a_cli_tool__<timestamp>.md, with two underscores before the timestamp
\* (one from the run "!!", one from the separator); the timestamp starts with
\* the year digits and holds no ':' or '.'; the file under that name holds the
\* content, and is written only after output/ exists.
C8_NameIsPrefixUnderscoreTimestamp ==
    /\ WrittenAfterDirectory
    /\ BuildSaved =>
          LET name == save.filename
              stem == BuildPrefix \o <<"_">>
          IN  /\ Len(name) > Len(stem) + 3
              /\ SubSeq(name, 1, Len(stem)) = stem
              /\ IsFileTimestamp(SubSeq(name, Len(stem) + 1, Len(name) - 3))
              /\ SubSeq(name, Len(name) - 2, Len(name)) = <<".", "m", "d">>
              /\ [name |-> name, content |-> save.content] \in outputFiles

\* C8 witness: the file of "Build a CLI tool!!" has been written.
C8_Witness ==
    /\ BuildSaved
    /\ outputDir
    /\ \E f \in outputFiles : f.name = save.filename /\ f.content = save.content

-----------------------------------------------------------------------------
(* Claims about the orchestrator's run.                                    *)

\* C6: when run ends in an error, whichever step failed, the run has
\* persisted nothing: no output file is written and no entry is added to the
\* session memory list or to the memories table.
C6_NothingPersistedOnError ==
    runPc = "failed" =>
        /\ outputFiles = runStart.outputFiles
        /\ sessionMemory = runStart.sessionMemory
        /\ memories = runStart.memories

\* The operations of a run, in the order of the phases.
OperationOrder ==
    <<"question", "memory query",
      "provider call: historical_grounding",
      "provider call: emotional_resonance", "checkpoint: emotional_resonance",
      "provider call: technical_bridge", "checkpoint: technical_bridge",
      "provider call: technical_specification",
      "provider call: claude_code_instructions",
      "saveOutput", "storeSuccess", "summary">>

Rank(operation) == CHOOSE i \in DOMAIN OperationOrder : OperationOrder[i] = operation

ProviderCalls ==
    {"provider call: historical_grounding", "provider call: emotional_resonance",
     "provider call: technical_bridge", "provider call: technical_specification",
     "provider call: claude_code_instructions"}

\* How many operations of the set the run has started.
Started(operations) == Cardinality({i \in DOMAIN runTrace : runTrace[i] \in operations})

\* C7: the operations of a run are started in the one order of the phases
\* (questions, memory query, the three conceptual provider calls each
\* followed by its optional checkpoint, the technical call, the output call,
\* saveOutput, storeSuccess, summary), never going back and with at most one
\* outstanding; a run that succeeds has made exactly five provider calls,
\* one saveOutput and one storeSuccess.
C7_OneLinearOrder ==
    /\ Cardinality(runPending) <= 1
    /\ runPending \subseteq Range(runTrace)
    /\ \A i \in DOMAIN runTrace : runTrace[i] \in Range(OperationOrder)
    /\ \A i \in 1..(Len(runTrace) - 1) :
          \/ Rank(runTrace[i]) < Rank(runTrace[i + 1])
          \/ runTrace[i] = "question" /\ runTrace[i + 1] = "question"
    /\ \A i \in DOMAIN runTrace :
          runTrace[i] = "checkpoint: emotional_resonance" =>
              i > 1 /\ runTrace[i - 1] = "provider call: emotional_resonance"
    /\ \A i \in DOMAIN runTrace :
          runTrace[i] = "checkpoint: technical_bridge" =>
              i > 1 /\ runTrace[i - 1] = "provider call: technical_bridge"
    /\ runPc = "done" =>
          /\ \A p \in ProviderCalls : Started({p}) = 1
          /\ Started(ProviderCalls) = 5
          /\ Started({"saveOutput"}) = 1
          /\ Started({"storeSuccess"}) = 1
          /\ Started({"memory query"}) = 1
          /\ Started({"question"}) = Len(runCtx.questions)
          /\ runTrace[Len(runTrace)] = "summary"

\* C7 witness: a run for "Build a CLI tool!!" has succeeded after three
\* questions, the query, five provider calls with both checkpoints, the
\* save, the store and the summary.
C7_Witness ==
    /\ runPc = "done"
    /\ runCtx.task = BuildTask
    /\ runTrace = <<"question", "question", "question", "memory query",
                    "provider call: historical_grounding",
                    "provider call: emotional_resonance", "checkpoint: emotional_resonance",
                    "provider call: technical_bridge", "checkpoint: technical_bridge",
                    "provider call: technical_specification",
                    "provider call: claude_code_instructions",
                    "saveOutput", "storeSuccess", "summary">>
    /\ runCtx.outputPath = save.filename
    /\ Len(sessionMemory) = Len(runStart.sessionMemory) + 1

\* C15: a seed carries the stored run's historical grounding: a query that
\* returns the row a successful run stored for task T, whose
\* historical_grounding round gave the synthesis S, returns the seed "T: S".
C15_SeedCarriesGrounding ==
    (memLast.op = "findRelevantSuccesses" /\ memLast.outcome = "returned") =>
        \A j \in DOMAIN memLast.rows :
            LET row == memories[memLast.rows[j]]
            IN  "historical_grounding" \in DOMAIN row.philosophy =>
                    memLast.seeds[j] =
                        Str(row.task) \o ": " \o row.philosophy["historical_grounding"][1]

\* The run stands in the analysis of a prompt, its questions generated.
Analyzing(task) == runPc = "askQuestions" /\ runCtx.task = task

\* C16: for the documented example sessions the questions generated are the
\* documented ones in their order: the dashboard component gives production,
\* emotional tone, technology stack; the git branches tool and the
\* configuration schema give production, data scale, technology stack.
C16_ExampleQuestions ==
    /\ Analyzing(ExampleDashboard) =>
          runCtx.questions = <<"production", "emotional tone", "technology stack">>
    /\ Analyzing(ExampleBranches) =>
          runCtx.questions = <<"production", "scale", "technology stack">>
    /\ Analyzing(ExampleSchema) =>
          runCtx.questions = <<"production", "scale", "technology stack">>

\* The rounds after which the user is asked.
CheckpointFoci == {"emotional_resonance", "technical_bridge"}

\* The "User" calls of trackExpertInteraction the run has made for a round.
UserCalls(focus) ==
    {i \in (runStart.tracked + 1)..Len(trackLog) :
        trackLog[i].expertName = "User" /\ trackLog[i].round = focus}

\* The user chose to refine the round's synthesis and entered a text.
Refined(focus) ==
    focus \in DOMAIN runCtx.feedback /\ IsTruthy(runCtx.feedback[focus])

\* C18: the refine-or-keep prompt is offered once after the
\* emotional_resonance round and once after the technical_bridge round,
\* before the next provider call, and never after historical_grounding; a
\* refinement with a text makes the text the philosophy value of the focus
\* from then on and records one interaction of "User" for the round;
\* without one the value stays the synthesis and no "User" interaction is
\* recorded.
C18_CheckpointsAndRefinement ==
    /\ "checkpoint: historical_grounding" \notin Range(runTrace)
    /\ DOMAIN runCtx.feedback \subseteq CheckpointFoci
    /\ \A focus \in CheckpointFoci :
          /\ Started({"checkpoint: " \o focus}) <= 1
          /\ \A i \in 1..(Len(runTrace) - 1) :
                runTrace[i] = "provider call: " \o focus =>
                    runTrace[i + 1] = "checkpoint: " \o focus
          /\ runPc = "done" => Started({"checkpoint: " \o focus}) = 1
    /\ \A focus \in DOMAIN runCtx.philosophy :
          IF Refined(focus)
          THEN /\ runCtx.philosophy[focus] = runCtx.feedback[focus]
               /\ Cardinality(UserCalls(focus)) = 1
               /\ \A i \in UserCalls(focus) :
                     trackLog[i].insights = runCtx.feedback[focus]
               /\ \E i \in DOMAIN expertInteractions :
                     /\ expertInteractions[i].expertName = "User"
                     /\ expertInteractions[i].round = focus
                     /\ expertInteractions[i].insights # <<>>
                     /\ expertInteractions[i].insights[Len(expertInteractions[i].insights)]
                            = runCtx.feedback[focus][1]
          ELSE /\ runCtx.philosophy[focus] = <<"synthesis of " \o focus>>
               /\ UserCalls(focus) = {}

\* C18 witness: a run has succeeded in which the user refined the
\* emotional_resonance synthesis with a text and declined to refine the
\* technical_bridge synthesis.
C18_Witness ==
    /\ runPc = "done"
    /\ runCtx.feedback = ("emotional_resonance" :> <<"refined">>)
                         @@ ("technical_bridge" :> Undefined)
    /\ runCtx.philosophy["emotional_resonance"] = <<"refined">>
    /\ runCtx.philosophy["technical_bridge"] = <<"synthesis of technical_bridge">>
    /\ Cardinality(UserCalls("emotional_resonance")) = 1

\* C19: the first conceptual provider call carries no previous response
\* id, each later one carries the response id the call before it returned,
\* and the prompt of a round is built from the philosophy entries of all
\* earlier rounds, user refinements included, and of no later round.
C19_ChainedCalls ==
    /\ Len(runCtx.calls) <= Len(rounds)
    /\ Len(runCtx.responseIds) <= Len(runCtx.calls)
    /\ \A i \in DOMAIN runCtx.calls :
          LET call == runCtx.calls[i]
          IN  /\ call.focus = rounds[i].focus
              /\ call.previousResponseId =
                     IF i = 1 THEN Undefined ELSE runCtx.responseIds[i - 1]
              /\ call.previousInsights =
                     [j \in 1..(i - 1) |->
                         rounds[j].focus \o ": " \o runCtx.philosophy[rounds[j].focus][1]]

\* C19 witness: the third conceptual call has been made with the response
\* id of the second reply, its prompt built from the grounding synthesis and
\* the user's refinement of the emotional_resonance round.
C19_Witness ==
    /\ Len(runCtx.calls) = 3
    /\ runCtx.calls[3].previousResponseId = <<"resp_emotional_resonance">>
    /\ runCtx.calls[2].previousResponseId = <<"resp_historical_grounding">>
    /\ runCtx.calls[3].previousInsights =
           <<"historical_grounding: synthesis of historical_grounding",
             "emotional_resonance: refined">>

\* The run is the first on its provider client, and has returned its result.
FirstRunDone ==
    /\ runPc = "done"
    /\ runsDone = 1
    /\ runStart.tracked = 0

\* C27: at the end of a successful first run on a fresh provider client the
\* total the summary shows, the sum of callCount over the tracked
\* interactions, is the number of provider calls the run made, whether or not
\* the user refined a round.
C27_TotalIsProviderCalls ==
    FirstRunDone => runCtx.totalCalls = Len(runCtx.requests)

\* C28: every provider request of the run, for a conceptual round, for the
\* technical specification and for the final document, carries the system
\* prompt generated for it as a system message, together with the user
\* prompt as a user message.
C28_RequestsCarrySystemPrompt ==
    \A i \in DOMAIN runCtx.requests :
        LET request == runCtx.requests[i]
        IN  /\ [role |-> "system", content |-> request.generated.systemPrompt]
                  \in Range(request.messages)
            /\ [role |-> "user", content |-> request.generated.userPrompt]
                  \in Range(request.messages)

-----------------------------------------------------------------------------
(* Claims about the round prompt.                                          *)

\* The presence checks of the mode-test harness on a system prompt.
hasHistoricalReferences(systemPrompt) ==
    includes(systemPrompt, "history") \/ includes(systemPrompt, "historical")

hasPrinciplesOnly(systemPrompt) ==
    includes(systemPrompt, "principles mode")
    \/ includes(systemPrompt, "Do NOT reference history")

\* The last call built the prompt of a round led by the DesignPhilosopher.
DesignPhilosopherLed == prompt.outcome = "built" /\ prompt.round.lead = "DesignPhilosopher"

\* The system prompt the last call would have built in another mode.
SystemPromptIn(mode) ==
    generateRoundPrompt(prompt.round, prompt.experts, prompt.task, prompt.philosophy,
                        mode).systemPrompt

\* The system prompt begins with the mode-dependent text and holds nothing of
\* the catalog's text; the pr and design_review text carries the prohibition,
\* the explore text the permission.
BuiltFromModeText ==
    DesignPhilosopherLed =>
        LET modeText == getDesignPhilosopherMode(prompt.mode)
        IN  /\ SubSeq(prompt.systemPrompt, 1, Len(modeText)) = modeText
            /\ ~includes(prompt.systemPrompt, "You are the DesignPhilosopher expert.")
            /\ ~includes(prompt.systemPrompt, "<expert_role>")
            /\ prompt.mode \in {"pr", "design_review"} =>
                  includes(prompt.systemPrompt, "Do NOT reference history")
            /\ prompt.mode = "explore" =>
                  includes(prompt.systemPrompt, "You MAY reference historical contexts")

\* C13: for a round led by the DesignPhilosopher the system prompt is built
\* from the mode-dependent text, never the catalog's, with the prohibition
\* for pr and design_review and the permission for explore; and each presence
\* check of the harness answers differently for the pr/design_review prompt
\* and the explore prompt.
C13_ModeTextsAnswerDifferently ==
    /\ BuiltFromModeText
    /\ DesignPhilosopherLed =>
          \A other \in Modes :
              ((other = "explore") # (prompt.mode = "explore")) =>
                  /\ hasHistoricalReferences(prompt.systemPrompt)
                        # hasHistoricalReferences(SystemPromptIn(other))
                  /\ hasPrinciplesOnly(prompt.systemPrompt)
                        # hasPrinciplesOnly(SystemPromptIn(other))

\* The rounds of a mode in the round tables, base and extended.
TableRounds(mode) == Range(roundsByMode[mode]) \cup Range(ExtendedRoundTable[mode])

\* C26: for every mode and every round of that mode's round table, base and
\* extended, the closing MasterReviewer round included, the round's lead is
\* an expert of the catalog, so that generateRoundPrompt builds the prompts
\* and does not throw its lookup error.
C26_TableLeadsInCatalog ==
    (prompt.outcome # "" /\ prompt.round \in TableRounds(prompt.mode)) =>
        /\ prompt.round.lead \in DOMAIN conceptualExperts
        /\ prompt.outcome = "built"

-----------------------------------------------------------------------------
(* Claims about the round planner.                                         *)

\* The focus of the MasterReviewer's round in each mode.
FinalFocus ==
    [pr |-> "final_synthesis", design_review |-> "final_optimization",
     explore |-> "creative_synthesis"]

\* The extended table of a mode: its base table, then the MasterReviewer's round.
ExtendedRounds(mode) ==
    roundsByMode[mode] \o <<[focus |-> FinalFocus[mode], lead |-> "MasterReviewer"]>>

\* The last call was one of the extended variant that returned with no
\* dynamic agent at hand: no factory, no need reported, or no agent obtained.
ReturnedUnaugmented ==
    /\ plan.variant = "extended" /\ plan.outcome = "returned"
    /\ (~plan.factory \/ plan.analysis = "not needed" \/ plan.team = <<>>)

\* C14: with no factory, no need reported or no dynamic agent obtained, the
\* extended planRounds returns exactly the mode's extended table, which is the
\* base table followed by the MasterReviewer's round; the base planRounds
\* returns the 6 pr rounds and the 3 rounds of the other modes in table order.
C14_PlanIsTable ==
    /\ ReturnedUnaugmented =>
          /\ plan.rounds = baseRoundsByMode[plan.mode]
          /\ plan.rounds = ExtendedRounds(plan.mode)
    /\ plan.variant = "base" =>
          /\ plan.outcome = "returned"
          /\ plan.rounds = roundsByMode[plan.mode]
          /\ Len(plan.rounds) = (IF plan.mode = "pr" THEN 6 ELSE 3)
          /\ plan.mode = "explore" =>
                plan.rounds = <<[focus |-> "concepts", lead |-> "DesignPhilosopher"],
                                [focus |-> "experience_goals", lead |-> "ExperienceArchitect"],
                                [focus |-> "technical_bridge", lead |-> "TechnicalPoet"]>>
          /\ plan.mode = "pr" =>
                [i \in 1..6 |-> plan.rounds[i].lead] =
                    <<"SpecScribe", "EffectArchitect", "TestEngineer", "CodeGen",
                      "DXEnforcer", "PRWriter">>

\* C14 witness: a factory was supplied and the analysis
\* reported no need: the pr plan returned is the seven rounds of the table.
C14_Witness ==
    /\ ReturnedUnaugmented
    /\ plan.factory /\ plan.analysis = "not needed" /\ plan.mode = "pr"
    /\ Len(plan.rounds) = 7
    /\ plan.rounds[7] = [focus |-> "final_synthesis", lead |-> "MasterReviewer"]

\* The last call was one of the extended variant that returned a plan
\* augmented with the rounds of a team.
ReturnedAugmented ==
    /\ plan.variant = "extended" /\ plan.outcome = "returned"
    /\ plan.factory /\ plan.analysis = "needed" /\ plan.team # <<>>

\* C20: a plan augmented with a team of k dynamic agents is the mode's
\* extended table with k extra rounds as one block after the first
\* (explore) or second (pr, design_review) table round, the j-th round of
\* the block bound to the j-th member of the team; the table rounds keep
\* their order, the MasterReviewer's round stays last, and the table itself
\* is unchanged.
C20_TeamBlockInTeamOrder ==
    ReturnedAugmented =>
        LET k == Len(plan.team)
            insertIndex == IF plan.mode = "explore" THEN 1 ELSE 2
            table == ExtendedRounds(plan.mode)
        IN  /\ Len(plan.rounds) = Len(table) + k
            /\ \A i \in 1..insertIndex : plan.rounds[i] = table[i]
            /\ \A j \in 1..k : plan.rounds[insertIndex + j] = DynamicRound(plan.team[j])
            /\ \A i \in (insertIndex + 1)..Len(table) : plan.rounds[k + i] = table[i]
            /\ plan.rounds[Len(plan.rounds)].lead = "MasterReviewer"
            /\ baseRoundsByMode = ExtendedRoundTable

-----------------------------------------------------------------------------
(* Claims about the selection of experts.                                  *)

\* The last call was selectExperts and none of the provider calls it made
\* failed.
ProviderServed ==
    /\ selection.op = "selectExperts"
    /\ selection.analyzed.ok
    /\ selection.mode \in {"conceptual", "both"} => selection.missingConceptual.ok
    /\ selection.mode \in {"technical", "both"} => selection.missingTechnical.ok

\* C23: selectExperts never fails because of the content of a provider reply.
\* When every provider call it made was served, whatever the replies hold
\* (text that does not parse, null, an array, an object without domains or
\* technologies, a list of missing areas that are not strings), the call does
\* not end in an error thrown while the reply is used: it returns, or fails
\* with the failure of the agent factory.
C23_ReplyContentNeverFails ==
    ProviderServed => selection.outcome # "died"

\* The technologies of the analysis the last selection was applied to.
Technologies == selection.analyzed.reply.fields.technologies

\* C24: in the technical selection, when no analyzed technology is a key of
\* the table of technical expert groups, an empty list and a non-empty list
\* alike, the result holds the experts of the Effect group; and the result
\* never holds more than 6 experts.
C24_UnmatchedTechnologiesGetEffect ==
    (selection.op = "selectStaticTechnicalExperts" /\ selection.outcome = "returned") =>
        /\ Len(selection.group.technical) <= 6
        /\ Range(Technologies) \cap DOMAIN staticTechnicalExperts = {} =>
              Range(EffectExperts) \subseteq Range(selection.group.technical)

\* C25: for every analysis the conceptual selection returns at least 2 and
\* at most 5 experts, all distinct; SystemsTheorist is among them when the
\* complexity is complex, DesignPhilosopher and TechnicalPoet when the novelty
\* is innovative.
C25_TwoToFiveDistinctExperts ==
    selection.op = "selectStaticConceptualExperts" =>
        LET experts == selection.group.conceptual
            analysis == selection.analyzed.reply
        IN  /\ selection.outcome = "returned"
            /\ Len(experts) >= 2 /\ Len(experts) <= 5
            /\ \A i, j \in DOMAIN experts : i # j => experts[i] # experts[j]
            /\ analysis.fields.complexity = "complex" =>
                  "SystemsTheorist" \in Range(experts)
            /\ analysis.fields.novelty = "innovative" =>
                  {"DesignPhilosopher", "TechnicalPoet"} \subseteq Range(experts)

====
